---- MODULE Spec2Model ----
(***************************************************************************)
(* Voxel stores of voxel-tiler-core (src/src/collection.rs): the flat list *)
(* PointCloud, the dense Vec3VoxelCollection and Vec2VoxelCollection, and  *)
(* the hash stores HMap3DVoxelCollection and HMap2DVoxelCollection, with   *)
(* the saturating colour aggregation they share.                           *)
(*                                                                         *)
(* A Rust panic is the value Panic; an Option is <<>> (None) or <<x>>      *)
(* (Some(x)).  Integer types keep their width: W = u8, ColorPool = u16.    *)
(* Arithmetic overflow panics when the build checks overflow and wraps     *)
(* when it does not; the variable overflowChecks is the build's choice.    *)
(***************************************************************************)
EXTENDS Integers, Sequences, FiniteSets, TLC

VARIABLES store, hist, last, nops, panicked, overflowChecks, other, inserted, merged,
          mesh, input, output

vars == <<store, hist, last, nops, panicked, overflowChecks, other, inserted, merged,
          mesh, input, output>>

\* ---------------------------------------------------------------- bounds

\* Longest mixed sequence of insert_one calls in the aggregation runs.
MaxInserts == 3
\* Length of the single-colour run that saturates a u8 weight.
SatInserts == 300
\* Largest coordinate of an input point on its axis.
MaxCoord == 1
\* Longest list of voxels handed to new().
MaxNew == 1
\* Longest sequence of operations on one store.
MaxOps == 2

\* ------------------------------------------------------ program constants

\* Weight = u8: W::max_value().
WMax == 255
\* ColorPool = u16: C::max_value().
CMax == 65535
\* The modulus of a wrapping ColorPool operation.
CMod == CMax + 1
\* point[i].as_() to usize of a negative difference wraps to a value far
\* beyond every Vec length; 2^16 is the narrowest usize Rust builds for.
UsizeMod == 2 ^ 16

\* ---------------------------------------------------------------- values

Panic == [panic |-> TRUE]

IsPanic(r) == "panic" \in DOMAIN r

None == <<>>

Some(x) == <<x>>

IsSome(o) == Len(o) = 1

Unwrap(o) == o[1]

\* Point3D::default()
PointDefault == <<0, 0, 0>>

\* Voxel::default(): the vacant cell of a dense store.
VoxelDefault == [color |-> <<0, 0, 0>>, weight |-> 0]

\* Voxel::new(color): weight = W::one().
VoxelNew(c) == [color |-> c, weight |-> 1]

\* VecX + VecX, VecX - VecX, component-wise.
PAdd(p, q) == [i \in 1..3 |-> p[i] + q[i]]

PSub(p, q) == [i \in 1..3 |-> p[i] - q[i]]

\* VecX::fit::<2>(): the first two components.
Fit(p) == <<p[1], p[2]>>

\* The order in which a hash store is iterated is not specified by DashMap;
\* the model iterates in lexicographic order of the keys.
RECURSIVE KeyLess(_, _)
KeyLess(p, q) ==
  IF Len(p) = 0 THEN FALSE
  ELSE IF p[1] # q[1] THEN p[1] < q[1]
  ELSE KeyLess(Tail(p), Tail(q))

RECURSIVE KeySeq(_)
KeySeq(S) ==
  IF S = {} THEN <<>>
  ELSE LET m == CHOOSE p \in S : \A q \in S : p = q \/ KeyLess(p, q)
       IN <<m>> \o KeySeq(S \ {m})

Min(S) == CHOOSE a \in S : \A b \in S : a <= b

Max(S) == CHOOSE a \in S : \A b \in S : a >= b

\* --------------------------------------------------- colour aggregation

\* W as C (AsPrimitive): an `as` cast, which truncates to the width of C.
WeightAsC(w) == w % CMod

\* The weight never incremented: a merge that forgets the weight.
AddColorWithWeightCheck_NoWeight(cur, v, chk) ==
  IF cur.weight = WMax THEN cur
  ELSE [color |-> [i \in 1..3 |-> (cur.color[i] + v.color[i]) % CMod],
        weight |-> cur.weight]

\* The whole colour * weight added on overflow of the weight, not the part
\* that still fits.
AddColorWithWeightCheck_NoFit(cur, v, chk) ==
  IF cur.weight = WMax THEN cur
  ELSE LET w == IF cur.weight + v.weight > WMax THEN WMax - cur.weight ELSE v.weight
       IN [color |-> [i \in 1..3 |-> (cur.color[i] + v.color[i] * v.weight) % CMod],
           weight |-> cur.weight + w]

\* No stop at W::MAX: the colour is added on every call.
AddColorWithWeightCheck_NoStop(cur, v, chk) ==
  LET w == IF cur.weight + v.weight > WMax THEN WMax - cur.weight ELSE v.weight
      sum == [i \in 1..3 |-> cur.color[i] + v.color[i] * v.weight]
  IN IF chk /\ \E i \in 1..3 : sum[i] > CMax THEN Panic
     ELSE [color |-> [i \in 1..3 |-> sum[i] % CMod], weight |-> cur.weight + w]

\* add_color_with_weight_check: the merged voxel, or Panic when a ColorPool
\* multiplication or addition overflows in a build that checks overflow.
AddColorWithWeightCheck(cur, v, chk) ==
  IF cur.weight = WMax THEN cur
  ELSE LET w == IF cur.weight + v.weight > WMax
                THEN WMax - cur.weight
                ELSE v.weight
           prod == [i \in 1..3 |-> v.color[i] * WeightAsC(w)]
           sum == [i \in 1..3 |-> cur.color[i] + (prod[i] % CMod)]
           overflow == \E i \in 1..3 : prod[i] > CMax \/ sum[i] > CMax
       IN IF overflow /\ chk THEN Panic
          ELSE [color |-> [i \in 1..3 |-> sum[i] % CMod],
                weight |-> cur.weight + w]

\* voxel.color / Color::from(voxel.weight).as_(): Panic on a zero divisor.
AverageColor(v) ==
  IF WeightAsC(v.weight) = 0 THEN Panic
  ELSE [ok |-> [i \in 1..3 |-> v.color[i] \div WeightAsC(v.weight)]]

\* calc_bounds over a list of (point, voxel).
CalcBounds(points) ==
  IF Len(points) = 0 THEN <<PointDefault, PointDefault>>
  ELSE LET axis(i) == {points[k][1][i] : k \in 1..Len(points)}
       IN << [i \in 1..3 |-> Min(axis(i))], [i \in 1..3 |-> Max(axis(i))] >>

\* calc_bounds_from_2
CalcBoundsFrom2(b1, b2) ==
  << [i \in 1..3 |-> IF b1[1][i] <= b2[1][i] THEN b1[1][i] ELSE b2[1][i]],
     [i \in 1..3 |-> IF b1[2][i] >= b2[2][i] THEN b1[2][i] ELSE b2[2][i]] >>

\* ------------------------------------------------------------ the stores

Ok(x) == [ok |-> x]

\* p.as_() to usize of the difference d of two coordinates of type P.  A
\* negative difference of a signed P wraps in the cast; of an unsigned P the
\* subtraction itself overflows: a panic (-1 here) when the build checks
\* overflow, a wrapped value otherwise.
IndexOf(d, signed, chk) ==
  IF d < 0 /\ ~signed /\ chk THEN -1 ELSE d % UsizeMod

\* into_vec_with_offset / to_vec_with_offset on a list from to_vec.
WithOffset(vec, offset) ==
  [k \in 1..Len(vec) |-> <<PAdd(vec[k][1], offset), vec[k][2]>>]

\* ---- PointCloud

PointCloudNew(signed, voxels, bounds, offset, resolution) ==
  [kind |-> "PointCloud", signed |-> signed, field |-> voxels,
   bounds |-> bounds, offset |-> offset, resolution |-> resolution]

PointCloudInsertOne(s, point, voxel) ==
  [s EXCEPT !.field = Append(@, <<point, voxel>>), !.bounds = None]

\* ---- Vec3VoxelCollection

Idx3(size) == (0..(size[1] - 1)) \X (0..(size[2] - 1)) \X (0..(size[3] - 1))

\* field[x][y][z] = voxel for every point in turn; Panic on an index out of
\* range or on an overflowing subtraction.
RECURSIVE Vec3Fill(_, _, _, _, _, _)
Vec3Fill(field, size, min, points, signed, chk) ==
  IF Len(points) = 0 THEN Ok(field)
  ELSE LET d == PSub(points[1][1], min)
           idx == [i \in 1..3 |-> IndexOf(d[i], signed, chk)]
       IN IF \E i \in 1..3 : idx[i] = -1 \/ idx[i] >= size[i] THEN Panic
          ELSE Vec3Fill([field EXCEPT ![idx] = points[1][2]], size, min,
                        Tail(points), signed, chk)

Vec3New(signed, points, bounds, offset, resolution, chk) ==
  LET b == IF IsSome(bounds) THEN Unwrap(bounds) ELSE CalcBounds(points)
      size == [i \in 1..3 |-> (b[2][i] - b[1][i] + 1) % UsizeMod]
      filled == Vec3Fill([i \in Idx3(size) |-> VoxelDefault], size, b[1],
                         points, signed, chk)
  IN IF IsPanic(filled) THEN Panic
     ELSE [kind |-> "Vec3", signed |-> signed, size |-> size,
           field |-> filled.ok, bounds |-> b, offset |-> offset,
           resolution |-> resolution]

\* Every cell of the array in x, y, z order, vacant cells included.
Vec3ToVec(s) ==
  LET sy == s.size[2]
      sz == s.size[3]
      n == s.size[1] * sy * sz
      at(k) == <<k \div (sy * sz), (k \div sz) % sy, k % sz>>
  IN [k \in 1..n |-> <<PAdd(at(k - 1), s.bounds[1]), s.field[at(k - 1)]>>]

Vec3InsertOne(s, point, voxel, chk) ==
  LET d == PSub(point, s.bounds[1])
      idx == [i \in 1..3 |-> IndexOf(d[i], s.signed, chk)]
  IN IF \E i \in 1..3 : idx[i] = -1 THEN Panic
     ELSE IF \E i \in 1..3 : idx[i] >= s.size[i] THEN s
     ELSE LET r == AddColorWithWeightCheck(s.field[idx], voxel, chk)
          IN IF IsPanic(r) THEN Panic ELSE [s EXCEPT !.field[idx] = r]

Vec3Has(s, point, chk) ==
  LET d == PSub(point, s.bounds[1])
      idx == [i \in 1..3 |-> IndexOf(d[i], s.signed, chk)]
  IN IF \E i \in 1..3 : idx[i] = -1 THEN Panic
     ELSE IF \E i \in 1..3 : idx[i] >= s.size[i] THEN Ok(FALSE)
     ELSE Ok(s.field[idx].weight # 0)

\* ---- Vec2VoxelCollection

Idx2(size) == (0..(size[1] - 1)) \X (0..(size[2] - 1))

\* field[x][y] = (z, voxel) for every point in turn.
RECURSIVE Vec2Fill(_, _, _, _, _, _)
Vec2Fill(field, size, min, points, signed, chk) ==
  IF Len(points) = 0 THEN Ok(field)
  ELSE LET point == points[1][1]
           idx == [i \in 1..2 |-> IndexOf(point[i] - min[i], signed, chk)]
       IN IF \E i \in 1..2 : idx[i] = -1 \/ idx[i] >= size[i] THEN Panic
          ELSE Vec2Fill([field EXCEPT ![idx] = [h |-> point[3], v |-> points[1][2]]],
                        size, min, Tail(points), signed, chk)

Vec2New(signed, points, bounds, offset, resolution, chk) ==
  LET b == IF IsSome(bounds) THEN Unwrap(bounds) ELSE CalcBounds(points)
      size == [i \in 1..2 |-> (b[2][i] - b[1][i] + 1) % UsizeMod]
      filled == Vec2Fill([i \in Idx2(size) |-> [h |-> 0, v |-> VoxelDefault]],
                         size, b[1], points, signed, chk)
  IN IF IsPanic(filled) THEN Panic
     ELSE [kind |-> "Vec2", signed |-> signed, size |-> size,
           field |-> filled.ok, bounds_xy |-> <<Fit(b[1]), Fit(b[2])>>,
           bounds_z |-> Some(<<b[1][3], b[2][3]>>), offset |-> offset,
           resolution |-> resolution]

\* Vec2VoxelCollection::get_bounds: the cached z-bounds, or the heights of
\* the occupied cells; min().unwrap() panics when no cell is occupied.  The
\* computed value is not stored.
Vec2GetBounds(s) ==
  LET z == {s.field[i].h : i \in {j \in DOMAIN s.field : s.field[j].v.weight # 0}}
  IN IF ~IsSome(s.bounds_z) /\ z = {} THEN Panic
     ELSE LET bz == IF IsSome(s.bounds_z) THEN Unwrap(s.bounds_z)
                    ELSE <<Min(z), Max(z)>>
          IN Ok(<< <<s.bounds_xy[1][1], s.bounds_xy[1][2], bz[1]>>,
                   <<s.bounds_xy[2][1], s.bounds_xy[2][2], bz[2]>> >>)

\* Every cell of the array in x, y order, vacant cells included.
Vec2ToVec(s) ==
  LET sy == s.size[2]
      n == s.size[1] * sy
      at(k) == <<k \div sy, k % sy>>
  IN [k \in 1..n |->
        << <<at(k - 1)[1] + s.bounds_xy[1][1], at(k - 1)[2] + s.bounds_xy[1][2],
             s.field[at(k - 1)].h>>,
           s.field[at(k - 1)].v >>]

Vec2InsertOne(s, point, voxel, chk) ==
  LET idx == [i \in 1..2 |-> IndexOf(point[i] - s.bounds_xy[1][i], s.signed, chk)]
  IN IF \E i \in 1..2 : idx[i] = -1 THEN Panic
     ELSE IF \E i \in 1..2 : idx[i] >= s.size[i] THEN [s EXCEPT !.bounds_z = None]
     ELSE IF s.field[idx].h # point[3]
          THEN [s EXCEPT !.field[idx] = [h |-> point[3], v |-> voxel]]
     ELSE LET r == AddColorWithWeightCheck(s.field[idx].v, voxel, chk)
          IN IF IsPanic(r) THEN Panic
             ELSE [s EXCEPT !.field[idx].v = r, !.bounds_z = None]

\* point[0].as_() and point[1].as_() index the array as they are: the min
\* corner is not subtracted.
Vec2Has(s, point, chk) ==
  LET idx == [i \in 1..2 |-> point[i] % UsizeMod]
  IN IF \E i \in 1..2 : idx[i] >= s.size[i] THEN Ok(FALSE)
     ELSE Ok(s.field[idx].h = point[3] /\ s.field[idx].v.weight # 0)

\* ---- HMap3DVoxelCollection

\* field.entry(point).and_modify(add_color_with_weight_check).or_insert(voxel)
HMap3DEntry(field, point, voxel, chk) ==
  IF point \in DOMAIN field
  THEN LET r == AddColorWithWeightCheck(field[point], voxel, chk)
       IN IF IsPanic(r) THEN Panic ELSE Ok([field EXCEPT ![point] = r])
  ELSE Ok([q \in DOMAIN field \cup {point} |->
             IF q = point THEN voxel ELSE field[q]])

RECURSIVE HMap3DFill(_, _, _)
HMap3DFill(field, voxels, chk) ==
  IF Len(voxels) = 0 THEN Ok(field)
  ELSE LET r == HMap3DEntry(field, voxels[1][1], voxels[1][2], chk)
       IN IF IsPanic(r) THEN Panic ELSE HMap3DFill(r.ok, Tail(voxels), chk)

HMap3DNew(signed, voxels, bounds, offset, resolution, chk) ==
  LET filled == HMap3DFill(<<>>, voxels, chk)
  IN IF IsPanic(filled) THEN Panic
     ELSE [kind |-> "HMap3D", signed |-> signed, field |-> filled.ok,
           bounds |-> bounds, offset |-> offset, resolution |-> resolution]

HMap3DToVec(s) ==
  LET keys == KeySeq(DOMAIN s.field)
  IN [k \in 1..Len(keys) |-> <<keys[k], s.field[keys[k]]>>]

HMap3DInsertOne(s, point, voxel, chk) ==
  LET r == HMap3DEntry(s.field, point, voxel, chk)
  IN IF IsPanic(r) THEN Panic ELSE [s EXCEPT !.field = r.ok, !.bounds = None]

\* ---- HMap2DVoxelCollection

\* field.entry(point.fit()).and_modify(|(h, cur)| if *h == point[2] {add})
\*      .or_insert((point[2], voxel))
HMap2DEntry(field, point, voxel, chk) ==
  IF Fit(point) \in DOMAIN field
  THEN IF field[Fit(point)].h = point[3]
       THEN LET r == AddColorWithWeightCheck(field[Fit(point)].v, voxel, chk)
            IN IF IsPanic(r) THEN Panic
               ELSE Ok([field EXCEPT ![Fit(point)].v = r])
       ELSE Ok(field)
  ELSE Ok([q \in DOMAIN field \cup {Fit(point)} |->
             IF q = Fit(point) THEN [h |-> point[3], v |-> voxel] ELSE field[q]])

RECURSIVE HMap2DFill(_, _, _)
HMap2DFill(field, voxels, chk) ==
  IF Len(voxels) = 0 THEN Ok(field)
  ELSE LET r == HMap2DEntry(field, voxels[1][1], voxels[1][2], chk)
       IN IF IsPanic(r) THEN Panic ELSE HMap2DFill(r.ok, Tail(voxels), chk)

HMap2DNew(signed, voxels, bounds, offset, resolution, chk) ==
  LET filled == HMap2DFill(<<>>, voxels, chk)
  IN IF IsPanic(filled) THEN Panic
     ELSE [kind |-> "HMap2D", signed |-> signed, field |-> filled.ok,
           bounds |-> bounds, offset |-> offset, resolution |-> resolution]

HMap2DToVec(s) ==
  LET keys == KeySeq(DOMAIN s.field)
  IN [k \in 1..Len(keys) |->
        << <<keys[k][1], keys[k][2], s.field[keys[k]].h>>, s.field[keys[k]].v >>]

HMap2DInsertOne(s, point, voxel, chk) ==
  LET r == HMap2DEntry(s.field, point, voxel, chk)
  IN IF IsPanic(r) THEN Panic ELSE [s EXCEPT !.field = r.ok, !.bounds = None]

HMap2DHas(s, point) ==
  Fit(point) \in DOMAIN s.field /\ s.field[Fit(point)].h = point[3]

\* ---- VoxelCollection: the trait's methods over the five variants

New(kind, signed, voxels, bounds, offset, resolution, chk) ==
  CASE kind = "PointCloud" -> PointCloudNew(signed, voxels, bounds, offset, resolution)
    [] kind = "Vec3" -> Vec3New(signed, voxels, bounds, offset, resolution, chk)
    [] kind = "Vec2" -> Vec2New(signed, voxels, bounds, offset, resolution, chk)
    [] kind = "HMap3D" -> HMap3DNew(signed, voxels, bounds, offset, resolution, chk)
    [] kind = "HMap2D" -> HMap2DNew(signed, voxels, bounds, offset, resolution, chk)

ToVec(s) ==
  CASE s.kind = "PointCloud" -> s.field
    [] s.kind = "Vec3" -> Vec3ToVec(s)
    [] s.kind = "Vec2" -> Vec2ToVec(s)
    [] s.kind = "HMap3D" -> HMap3DToVec(s)
    [] s.kind = "HMap2D" -> HMap2DToVec(s)

ToVecWithOffset(s) == WithOffset(ToVec(s), s.offset)

HasBounds(s) ==
  CASE s.kind \in {"Vec3", "Vec2"} -> TRUE
    [] OTHER -> IsSome(s.bounds)

\* get_bounds: Ok of the pair (bounds, store after the call), or Panic.
GetBounds(s) ==
  CASE s.kind = "Vec3" -> Ok(<<s.bounds, s>>)
    [] s.kind = "Vec2" ->
         LET r == Vec2GetBounds(s)
         IN IF IsPanic(r) THEN Panic ELSE Ok(<<r.ok, s>>)
    [] OTHER ->
         IF IsSome(s.bounds) THEN Ok(<<Unwrap(s.bounds), s>>)
         ELSE LET c == CalcBounds(ToVec(s))
                  b == <<PAdd(c[1], s.offset), PAdd(c[2], s.offset)>>
              IN Ok(<<b, [s EXCEPT !.bounds = Some(b)]>>)

\* The store after insert_one, or Panic.
InsertOne(s, point, voxel, chk) ==
  CASE s.kind = "PointCloud" -> PointCloudInsertOne(s, point, voxel)
    [] s.kind = "Vec3" -> Vec3InsertOne(s, point, voxel, chk)
    [] s.kind = "Vec2" -> Vec2InsertOne(s, point, voxel, chk)
    [] s.kind = "HMap3D" -> HMap3DInsertOne(s, point, voxel, chk)
    [] s.kind = "HMap2D" -> HMap2DInsertOne(s, point, voxel, chk)

\* Ok(bool), or Panic.
Has(s, point, chk) ==
  CASE s.kind = "PointCloud" ->
         Ok(\E k \in 1..Len(s.field) : s.field[k][1] = point)
    [] s.kind = "Vec3" -> Vec3Has(s, point, chk)
    [] s.kind = "Vec2" -> Vec2Has(s, point, chk)
    [] s.kind = "HMap3D" -> Ok(point \in DOMAIN s.field)
    [] s.kind = "HMap2D" -> Ok(HMap2DHas(s, point))

\* to_points / into_points: Ok of the list of (point, averaged colour), or
\* Panic when a division panics.
ToPoints(s) ==
  LET vec == ToVec(s)
  IN IF \E k \in 1..Len(vec) : IsPanic(AverageColor(vec[k][2])) THEN Panic
     ELSE Ok([k \in 1..Len(vec) |-> <<vec[k][1], AverageColor(vec[k][2]).ok>>])

\* insert_one for every element of a list in turn.
RECURSIVE InsertAll(_, _, _)
InsertAll(s, vec, chk) ==
  IF Len(vec) = 0 THEN s
  ELSE LET r == InsertOne(s, vec[1][1], vec[1][2], chk)
       IN IF IsPanic(r) THEN Panic ELSE InsertAll(r, Tail(vec), chk)

\* insert: the trait's default, and PointCloud's own.
Insert(s, pc, chk) ==
  IF s.kind = "PointCloud"
  THEN [s EXCEPT !.field = @ \o ToVecWithOffset(pc), !.bounds = None]
  ELSE InsertAll(s, ToVecWithOffset(pc), chk)

Err == [err |-> "Resolution is different"]

IsErr(r) == "err" \in DOMAIN r

\* merge: Err, Panic, or the new store.
Merge(s, pc, chk) ==
  IF s.resolution # pc.resolution THEN Err
  ELSE LET both == HasBounds(s) /\ HasBounds(pc)
           bs == GetBounds(s)
           bp == GetBounds(pc)
       IN IF both /\ (IsPanic(bs) \/ IsPanic(bp)) THEN Panic
          ELSE New(s.kind, s.signed,
                   ToVecWithOffset(s) \o ToVecWithOffset(pc),
                   IF both THEN Some(CalcBoundsFrom2(bs.ok[1], bp.ok[1])) ELSE None,
                   PointDefault, s.resolution, chk)

\* ------------------------------------------------------------------------
\* Aggregation into the cells of one hash 3-D store (SpecAgg): insert_one on
\* HMap3DVoxelCollection::default(), hist recording what went into each cell.
\* ------------------------------------------------------------------------

\* The three colours of the single-cell scenario, and the saturation colour.
ColorA == <<60, 120, 180>>

ColorB == <<0, 0, 0>>

ColorC == <<120, 240, 0>>

ColorSat == <<4, 0, 0>>

AggPoints == {<<0, 0, 0>>, <<MaxCoord, 0, 0>>}

\* Weight-1 voxels, and voxels that carry a weight already: one short of
\* W::MAX, a small one, and one whose colour overflows ColorPool when added.
AggVoxels ==
  {VoxelNew(c) : c \in {ColorA, ColorB, ColorC, ColorSat}}
    \cup {[color |-> ColorSat, weight |-> WMax - 1],
          [color |-> <<200, 100, 0>>, weight |-> 2],
          [color |-> <<40000, 0, 0>>, weight |-> 2]}

\* HMap3DVoxelCollection::default()
HMap3DDefault ==
  [kind |-> "HMap3D", signed |-> TRUE, field |-> <<>>, bounds |-> None,
   offset |-> PointDefault, resolution |-> 1]

Inserts == LET n(p) == Len(hist[p])
           IN n(<<0, 0, 0>>) + (IF MaxCoord = 0 THEN 0 ELSE n(<<MaxCoord, 0, 0>>))

\* Only ColorSat weight-1 voxels so far, all into the cell at the origin.
SatRun ==
  /\ \A p \in AggPoints \ {PointDefault} : hist[p] = <<>>
  /\ \A k \in 1..Len(hist[PointDefault]) : hist[PointDefault][k] = VoxelNew(ColorSat)

InitAgg ==
  /\ store = HMap3DDefault
  /\ hist = [p \in AggPoints |-> <<>>]
  /\ last = None
  /\ nops = 0
  /\ panicked = FALSE
  /\ overflowChecks \in BOOLEAN
  /\ other = None
  /\ inserted = None
  /\ merged = None
  /\ mesh = None
  /\ input = None
  /\ output = None

\* store.insert_one(p, v)
AggInsertOne(p, v) ==
  /\ ~panicked
  /\ \/ Inserts < MaxInserts
     \/ SatRun /\ p = PointDefault /\ v = VoxelNew(ColorSat) /\ Inserts < SatInserts
  /\ LET r == InsertOne(store, p, v, overflowChecks)
     IN IF IsPanic(r)
        THEN /\ panicked' = TRUE
             /\ UNCHANGED <<store, hist, last>>
        ELSE /\ store' = r
             /\ hist' = [hist EXCEPT ![p] = Append(@, v)]
             /\ last' = Some([point |-> p, voxel |-> v,
                              pre |-> IF p \in DOMAIN store.field
                                      THEN Some(store.field[p]) ELSE None,
                              post |-> r.field[p]])
             /\ UNCHANGED panicked
  /\ UNCHANGED <<nops, overflowChecks, other, inserted, merged, mesh, input, output>>

NextAgg == \E p \in AggPoints, v \in AggVoxels : AggInsertOne(p, v)

SpecAgg == InitAgg /\ [][NextAgg]_vars

RECURSIVE SumChannel(_, _)
SumChannel(h, i) ==
  IF Len(h) = 0 THEN 0 ELSE h[1].color[i] + SumChannel(Tail(h), i)

\* C1: weight-1 insert_one calls into one cell of a hash 3-D store, n of them
\* with n <= W::MAX and every channel's sum <= ColorPool::MAX, leave the cell
\* with weight n and to_points reporting floor(sum / n) per channel: a
\* function of the inserted colours alone, so the same for every order.
C1_OrderIndependentAverage ==
  \A p \in AggPoints :
    LET h == hist[p]
        n == Len(h)
        sum == [i \in 1..3 |-> SumChannel(h, i)]
    IN (/\ n >= 1
        /\ \A k \in 1..n : h[k].weight = 1
        /\ n <= WMax
        /\ \A i \in 1..3 : sum[i] <= CMax)
       => /\ p \in DOMAIN store.field
          /\ store.field[p].weight = n
          /\ ~IsPanic(ToPoints(store))
          /\ \E k \in 1..Len(ToPoints(store).ok) :
               ToPoints(store).ok[k] = <<p, [i \in 1..3 |-> sum[i] \div n]>>

\* The three colours of the scenario inserted in another order than listed.
C1_Witness ==
  /\ hist[PointDefault] = <<VoxelNew(ColorC), VoxelNew(ColorA), VoxelNew(ColorB)>>
  /\ store.field[PointDefault].weight = 3
  /\ AverageColor(store.field[PointDefault]) = Ok(<<60, 120, 60>>)

\* The saturating rule as the claim states it, in unbounded integers.
SaturatingRule(cur, v) ==
  IF cur.weight = WMax THEN cur
  ELSE IF cur.weight + v.weight > WMax
  THEN [color |-> [i \in 1..3 |-> cur.color[i] + v.color[i] * (WMax - cur.weight)],
        weight |-> WMax]
  ELSE [color |-> [i \in 1..3 |-> cur.color[i] + v.color[i] * v.weight],
        weight |-> cur.weight + v.weight]

\* C2: a voxel merged into an occupied cell follows the saturating rule
\* wherever the resulting colour sum fits ColorPool, and a run of weight-1
\* insertions of colour (4,0,0) has weight min(n, 255) and colour sum
\* 4 * min(n, 255): after 300 of them weight 255, sum 4*255, averaged red 4.
C2_SaturatingMerge ==
  /\ (IsSome(last) /\ IsSome(last[1].pre)
        /\ \A i \in 1..3 : SaturatingRule(last[1].pre[1], last[1].voxel).color[i] <= CMax)
       => last[1].post = SaturatingRule(last[1].pre[1], last[1].voxel)
  /\ (SatRun /\ Len(hist[PointDefault]) >= 1)
       => LET n == Len(hist[PointDefault])
              w == IF n > WMax THEN WMax ELSE n
          IN /\ store.field[PointDefault] = [color |-> <<4 * w, 0, 0>>, weight |-> w]
             /\ AverageColor(store.field[PointDefault]) = Ok(ColorSat)

\* 300 insertions of colour (4,0,0) done.
C2_Witness ==
  /\ SatRun
  /\ Len(hist[PointDefault]) = 300
  /\ store.field[PointDefault].weight = WMax
  /\ store.field[PointDefault].color = <<4 * 255, 0, 0>>

\* ------------------------------------------------------------------------
\* One store of any variant and the calls made on it (SpecStore).
\* ------------------------------------------------------------------------

Kinds == {"PointCloud", "Vec3", "Vec2", "HMap3D", "HMap2D"}

Dense == {"Vec3", "Vec2"}

\* The coordinate type P of a variant: signed (i32, the default OutPoint) or
\* unsigned; HMap2DVoxelCollection is declared over P: UInt only.
Signedness(kind) ==
  IF kind = "HMap2D" THEN {FALSE}
  ELSE IF kind \in Dense THEN BOOLEAN
  ELSE {TRUE}

\* The origin and the points along each axis.
InPoints ==
  {p \in (0..MaxCoord) \X (0..MaxCoord) \X (0..MaxCoord) :
     Cardinality({i \in 1..3 : p[i] # 0}) <= 1}

\* A single point, and a voxel that already stands for W::MAX - 1 points.
InVoxels == {VoxelNew(ColorA), [color |-> ColorSat, weight |-> WMax - 1]}

RECURSIVE ListsUpTo(_, _)
ListsUpTo(S, n) ==
  IF n = 0 THEN {<<>>}
  ELSE LET shorter == ListsUpTo(S, n - 1)
       IN shorter \cup {Append(l, x) : l \in {m \in shorter : Len(m) = n - 1}, x \in S}

InLists == ListsUpTo(InPoints \X InVoxels, MaxNew)

InOffsets == {PointDefault, <<1, 0, 0>>}

\* The whole cube of input coordinates, as bounds handed to new().
Box == << PointDefault, <<MaxCoord, MaxCoord, MaxCoord>> >>

\* The bounds the builder may hand to new(): none; for a dense store the
\* region to allocate; for the others the bounds of the cells, which
\* get_bounds reports with the offset added.
InBounds(kind, voxels, offset) ==
  IF kind \in Dense THEN {None, Some(Box)}
  ELSE IF voxels = <<>> THEN {None}
  ELSE {None, Some(<<PAdd(CalcBounds(voxels)[1], offset),
                     PAdd(CalcBounds(voxels)[2], offset)>>)}

InitStore ==
  /\ overflowChecks \in BOOLEAN
  /\ \E kind \in Kinds, voxels \in InLists, offset \in InOffsets :
       \E signed \in Signedness(kind), bounds \in InBounds(kind, voxels, offset) :
         store = New(kind, signed, voxels, bounds, offset, 1, overflowChecks)
  /\ panicked = IsPanic(store)
  /\ last = None
  /\ nops = 0
  /\ hist = None
  /\ other = None
  /\ inserted = None
  /\ merged = None
  /\ mesh = None
  /\ input = None
  /\ output = None

\* store.insert_one(p, v)
DoInsertOne(p, v) ==
  /\ ~panicked
  /\ nops < MaxOps
  /\ LET r == InsertOne(store, p, v, overflowChecks)
     IN /\ panicked' = IsPanic(r)
        /\ store' = IF IsPanic(r) THEN store ELSE r
        /\ last' = Some([op |-> "insert_one", point |-> p, voxel |-> v,
                         pre |-> store, failed |-> IsPanic(r)])
  /\ nops' = nops + 1
  /\ UNCHANGED <<hist, overflowChecks, other, inserted, merged, mesh, input, output>>

NextStore == \E p \in InPoints, v \in InVoxels : DoInsertOne(p, v)

SpecStore == InitStore /\ [][NextStore]_vars

\* The occupied cells a store reports: the positions in to_vec with weight >= 1.
OccupiedAt(s) == {k \in 1..Len(ToVec(s)) : ToVec(s)[k][2].weight >= 1}

\* C3: every voxel a store holds and reports through to_vec has a weight in
\* 1..W::MAX, after new and after any insert_one.
C3_WeightRange ==
  ~panicked =>
    \A k \in 1..Len(ToVec(store)) : ToVec(store)[k][2].weight \in 1..WMax

\* A coordinate outside the bounds a dense store was constructed with.
OutOfBounds(s, p) ==
  IF s.kind = "Vec3"
  THEN \E i \in 1..3 : p[i] < s.bounds[1][i] \/ p[i] > s.bounds[2][i]
  ELSE \E i \in 1..2 : p[i] < s.bounds_xy[1][i] \/ p[i] > s.bounds_xy[2][i]

\* C7: insert_one on a dense store with a coordinate outside its bounds
\* returns normally and leaves the whole store, cells and bounds, as it was.
C7_OutOfBoundsIgnored ==
  (/\ IsSome(last)
   /\ last[1].op = "insert_one"
   /\ last[1].pre.kind \in Dense
   /\ OutOfBounds(last[1].pre, last[1].point))
    => /\ ~last[1].failed
       /\ store = last[1].pre

\* The (height, voxel) a 2-D store holds for the planar cell of p, if any.
PlanarCell(s, p) ==
  IF s.kind = "Vec2"
  THEN LET idx == <<p[1] - s.bounds_xy[1][1], p[2] - s.bounds_xy[1][2]>>
       IN IF idx \in DOMAIN s.field /\ s.field[idx].v.weight >= 1
          THEN Some(s.field[idx]) ELSE None
  ELSE IF Fit(p) \in DOMAIN s.field THEN Some(s.field[Fit(p)]) ELSE None

\* The cached z-bounds of a 2-D store are gone.
ZBoundsInvalid(s) == IF s.kind = "Vec2" THEN s.bounds_z = None ELSE s.bounds = None

\* C8: insert_one into an occupied planar cell of a 2-D store replaces the
\* stored (height, voxel) and invalidates the cached z-bounds when the height
\* differs, and merges colour and weight when the height is the same.
C8_HeightReplace ==
  (/\ IsSome(last)
   /\ last[1].op = "insert_one"
   /\ last[1].pre.kind \in {"Vec2", "HMap2D"}
   /\ IsSome(PlanarCell(last[1].pre, last[1].point)))
    => LET p == last[1].point
           old == PlanarCell(last[1].pre, p)[1]
       IN /\ ~last[1].failed
          /\ IF old.h # p[3]
             THEN /\ PlanarCell(store, p) = Some([h |-> p[3], v |-> last[1].voxel])
                  /\ ZBoundsInvalid(store)
             ELSE PlanarCell(store, p) =
                    Some([h |-> p[3], v |-> SaturatingRule(old.v, last[1].voxel)])

\* C9: to_points returns, without dividing by zero, exactly one entry
\* (coordinate, colour sum / weight) per occupied cell and none for a vacant one.
C9_ToPointsOccupiedOnly ==
  ~panicked =>
    IF IsPanic(ToPoints(store)) THEN FALSE
    ELSE LET vec == ToVec(store)
             pts == ToPoints(store).ok
         IN /\ Len(pts) = Cardinality(OccupiedAt(store))
            /\ \A k \in OccupiedAt(store) :
                 \E j \in 1..Len(pts) :
                   pts[j] = <<vec[k][1],
                              [i \in 1..3 |-> vec[k][2].color[i] \div vec[k][2].weight]>>

\* C10: has(p) is true exactly when p is the coordinate of an occupied cell.
C10_HasIffOccupied ==
  ~panicked =>
    \A p \in InPoints :
      Has(store, p, overflowChecks) =
        Ok(\E k \in OccupiedAt(store) : ToVec(store)[k][1] = p)

\* ------------------------------------------------------------------------
\* Two stores and the two ways to combine them (SpecMerge): store.insert(other)
\* on a clone of the receiver, and store.merge(other).
\* ------------------------------------------------------------------------

InResolutions == {1, 2}

\* The voxel lists of the argument store: single points.
InListsOther == ListsUpTo(InPoints \X {VoxelNew(ColorC)}, MaxNew)

InitMerge ==
  /\ overflowChecks \in BOOLEAN
  /\ \E kind \in Kinds, voxels \in InLists, offset \in InOffsets :
       \E signed \in Signedness(kind), bounds \in InBounds(kind, voxels, offset) :
         store = New(kind, signed, voxels, bounds, offset, 1, overflowChecks)
  /\ ~IsPanic(store)
  /\ \E kind \in Kinds, voxels \in InListsOther, offset \in InOffsets :
       \E bounds \in InBounds(kind, voxels, offset), resolution \in InResolutions :
         /\ kind = "HMap2D" => ~store.signed
         /\ other = New(kind, store.signed, voxels, bounds, offset, resolution,
                        overflowChecks)
  /\ ~IsPanic(other)
  /\ panicked = FALSE
  /\ last = None
  /\ nops = 0
  /\ hist = None
  /\ inserted = None
  /\ merged = None
  /\ mesh = None
  /\ input = None
  /\ output = None

\* let mut c = store.clone(); c.insert(other.clone())
DoInsert ==
  /\ inserted = None
  /\ inserted' = Some(Insert(store, other, overflowChecks))
  /\ UNCHANGED <<store, hist, last, nops, panicked, overflowChecks, other, merged,
                  mesh, input, output>>

\* store.clone().merge(other.clone())
DoMerge ==
  /\ merged = None
  /\ merged' = Some(Merge(store, other, overflowChecks))
  /\ UNCHANGED <<store, hist, last, nops, panicked, overflowChecks, other, inserted,
                  mesh, input, output>>

NextMerge == DoInsert \/ DoMerge

SpecMerge == InitMerge /\ [][NextMerge]_vars

\* The occupied cells of a store with their absolute coordinates.
OccupiedWithOffset(s) ==
  {ToVecWithOffset(s)[k] : k \in OccupiedAt(s)}

\* C4: merge of a dense store with a store of equal resolution keeps every
\* contributing point: each cell occupied in either input is occupied in the
\* result, and a cell occupied in both carries both contributions, aggregated
\* by the saturating rule (whenever merge returns a store).
C4_DenseMergePreserves ==
  (IsSome(merged) /\ store.kind \in Dense /\ store.resolution = other.resolution)
    => LET r == merged[1]
       IN IF IsPanic(r) \/ IsErr(r) THEN TRUE
          ELSE /\ \A e \in OccupiedWithOffset(store) \cup OccupiedWithOffset(other) :
                    \E f \in OccupiedWithOffset(r) : f[1] = e[1]
               /\ \A e \in OccupiedWithOffset(store), g \in OccupiedWithOffset(other) :
                    e[1] = g[1] =>
                      <<e[1], SaturatingRule(e[2], g[2])>> \in OccupiedWithOffset(r)

\* C5: merge returns an error exactly when the two resolutions differ, and
\* otherwise a store of the common resolution.
C5_MergeErrIffResolution ==
  IsSome(merged)
    => LET r == merged[1]
       IN IF store.resolution # other.resolution THEN IsErr(r)
          ELSE IF IsPanic(r) \/ IsErr(r) THEN FALSE
          ELSE r.resolution = store.resolution

\* The entries of a list, each with the number of times it occurs.
Counted(seq) ==
  {<<seq[k], Cardinality({j \in 1..Len(seq) : seq[j] = seq[k]})>> : k \in 1..Len(seq)}

\* C6: on PointCloud, HMap3DVoxelCollection and HMap2DVoxelCollection, insert
\* and merge of a store of equal resolution give the same entries once the
\* offset is applied, and insert is insert_one of every entry of the argument
\* moved by the argument's offset.
C6_InsertEqualsMerge ==
  (/\ IsSome(inserted)
   /\ IsSome(merged)
   /\ store.kind \in {"PointCloud", "HMap3D", "HMap2D"}
   /\ store.resolution = other.resolution)
    => IF IsPanic(inserted[1]) \/ IsPanic(merged[1]) \/ IsErr(merged[1]) THEN FALSE
       ELSE /\ Counted(ToVecWithOffset(inserted[1])) = Counted(ToVecWithOffset(merged[1]))
            /\ ToVec(inserted[1]) =
                 ToVec(InsertAll(store, ToVecWithOffset(other), overflowChecks))

\* ------------------------------------------------------------------------
\* Bounds and offset of one store (SpecBounds): new without cached bounds,
\* then insert_one, insert, get_bounds and offset_to_min in any order.
\* last is the latest call and hist the call before it.
\* ------------------------------------------------------------------------

\* Longest sequence of calls on the store in the bounds runs.
MaxBoundsOps == 3

\* The modulus of a wrapping operation on an unsigned coordinate; u16 is the
\* narrowest unsigned type the stores are instantiated with here.
PMod == 2 ^ 16

\* P - P on every axis: an unsigned subtraction below zero panics when the
\* build checks overflow and wraps when it does not.
PSubChecked(p, q, signed, chk) ==
  IF signed \/ \A i \in 1..3 : p[i] >= q[i] THEN Ok(PSub(p, q))
  ELSE IF chk THEN Panic
  ELSE Ok([i \in 1..3 |-> (p[i] - q[i]) % PMod])

\* offset_to_min: the store after the call, or Panic.
OffsetToMin(s, chk) ==
  LET current_offset == s.offset
      r == GetBounds(s)
  IN IF IsPanic(r) THEN Panic
     ELSE LET min == r.ok[1][1]
              t == r.ok[2]
          IN IF current_offset # min
             THEN LET offset == PSubChecked(min, current_offset, s.signed, chk)
                  IN IF IsPanic(offset) THEN Panic
                     ELSE [t EXCEPT !.offset = offset.ok]
             ELSE t

\* The stores handed to insert: a flat list of one point, with an offset.
InOthers ==
  {PointCloudNew(TRUE, <<<<p, VoxelNew(ColorC)>>>>, None, offset, 1) :
     p \in {PointDefault}, offset \in InOffsets}

InitBounds ==
  /\ overflowChecks \in BOOLEAN
  /\ \E kind \in Kinds, voxels \in InLists, offset \in InOffsets :
       \E signed \in Signedness(kind) :
         \E bounds \in (IF kind \in Dense THEN {None, Some(Box)} ELSE {None}) :
           store = New(kind, signed, voxels, bounds, offset, 1, overflowChecks)
  /\ ~IsPanic(store)
  /\ panicked = FALSE
  /\ last = None
  /\ nops = 0
  /\ hist = None
  /\ other = None
  /\ inserted = None
  /\ merged = None
  /\ mesh = None
  /\ input = None
  /\ output = None

\* One call on the store: r is the store after it (or Panic), rec what the
\* call was and what it returned.
BoundsStep(r, rec) ==
  /\ ~panicked
  /\ nops < MaxBoundsOps
  /\ panicked' = IsPanic(r)
  /\ store' = IF IsPanic(r) THEN store ELSE r
  /\ hist' = last
  /\ last' = Some(rec)
  /\ nops' = nops + 1
  /\ UNCHANGED <<overflowChecks, other, inserted, merged, mesh, input, output>>

\* store.insert_one(p, Voxel::new(ColorA))
BoundsInsertOne(p) ==
  LET r == InsertOne(store, p, VoxelNew(ColorA), overflowChecks)
  IN BoundsStep(r, [op |-> "insert_one", pre |-> store, failed |-> IsPanic(r)])

\* store.insert(pc)
BoundsInsert(pc) ==
  LET r == Insert(store, pc, overflowChecks)
  IN BoundsStep(r, [op |-> "insert", pre |-> store, failed |-> IsPanic(r)])

\* store.get_bounds()
BoundsGetBounds ==
  LET r == GetBounds(store)
  IN BoundsStep(IF IsPanic(r) THEN Panic ELSE r.ok[2],
                [op |-> "get_bounds", pre |-> store, failed |-> IsPanic(r),
                 result |-> IF IsPanic(r) THEN None ELSE Some(r.ok[1])])

\* store.offset_to_min()
BoundsOffsetToMin ==
  LET r == OffsetToMin(store, overflowChecks)
  IN BoundsStep(r, [op |-> "offset_to_min", pre |-> store, failed |-> IsPanic(r)])

NextBounds ==
  \/ \E p \in InPoints : BoundsInsertOne(p)
  \/ \E pc \in InOthers : BoundsInsert(pc)
  \/ BoundsGetBounds
  \/ BoundsOffsetToMin

SpecBounds == InitBounds /\ [][NextBounds]_vars

\* C11: on the flat-list and hash stores get_bounds returns the inclusive
\* minimum and maximum of the cell coordinates to_vec reports, whatever the
\* offset, and a second get_bounds in a row returns the same pair.
C11_GetBoundsOfCells ==
  (/\ IsSome(last)
   /\ last[1].op = "get_bounds"
   /\ last[1].pre.kind \notin Dense
   /\ ToVec(last[1].pre) # <<>>)
    => /\ ~last[1].failed
       /\ last[1].result = Some(CalcBounds(ToVec(last[1].pre)))
       /\ (IsSome(hist) /\ hist[1].op = "get_bounds")
            => last[1].result = hist[1].result

\* C12: after offset_to_min the offset is the min corner get_bounds reports,
\* whatever the offset was before, and a second offset_to_min in a row
\* leaves the offset as it is.
C12_OffsetIsMin ==
  (IsSome(last) /\ last[1].op = "offset_to_min")
    => /\ ~last[1].failed
       /\ ~IsPanic(GetBounds(store))
       /\ store.offset = GetBounds(store).ok[1][1]
       /\ (IsSome(hist) /\ hist[1].op = "offset_to_min")
            => store.offset = last[1].pre.offset

\* ------------------------------------------------------------------------
\* Mesher::meshing (src/src/mesh.rs): the VoxelMesh of a store.
\* ------------------------------------------------------------------------

\* The six face bits of ValidSide, in the order of the unit_faces array.
FaceOrder == <<"LEFT", "RIGHT", "BOTTOM", "TOP", "BACK", "FRONT">>

\* All bits of ValidSide.
ValidSideAll == {"TOP", "BOTTOM", "LEFT", "RIGHT", "FRONT", "BACK", "BORDER"}

\* FRONT wound the other way round: (v0, v2, v1) in both triangles.
UnitFaceDelta_Flipped(d) ==
  CASE d = "LEFT" -> << <<0,0,0>>, <<0,0,1>>, <<0,1,1>>, <<0,1,1>>, <<0,1,0>>, <<0,0,0>> >>
    [] d = "RIGHT" -> << <<1,0,0>>, <<1,1,0>>, <<1,1,1>>, <<1,1,1>>, <<1,0,1>>, <<1,0,0>> >>
    [] d = "BOTTOM" -> << <<0,0,0>>, <<0,1,0>>, <<1,1,0>>, <<1,1,0>>, <<1,0,0>>, <<0,0,0>> >>
    [] d = "TOP" -> << <<0,0,1>>, <<1,0,1>>, <<1,1,1>>, <<1,1,1>>, <<0,1,1>>, <<0,0,1>> >>
    [] d = "BACK" -> << <<0,0,0>>, <<1,0,0>>, <<1,0,1>>, <<1,0,1>>, <<0,0,1>>, <<0,0,0>> >>
    [] d = "FRONT" -> << <<1,1,1>>, <<0,1,0>>, <<1,1,0>>, <<0,1,0>>, <<1,1,1>>, <<0,1,1>> >>

\* The six vertex offsets of a face in unit_faces.
UnitFaceDelta(d) ==
  CASE d = "LEFT" -> << <<0,0,0>>, <<0,0,1>>, <<0,1,1>>, <<0,1,1>>, <<0,1,0>>, <<0,0,0>> >>
    [] d = "RIGHT" -> << <<1,0,0>>, <<1,1,0>>, <<1,1,1>>, <<1,1,1>>, <<1,0,1>>, <<1,0,0>> >>
    [] d = "BOTTOM" -> << <<0,0,0>>, <<0,1,0>>, <<1,1,0>>, <<1,1,0>>, <<1,0,0>>, <<0,0,0>> >>
    [] d = "TOP" -> << <<0,0,1>>, <<1,0,1>>, <<1,1,1>>, <<1,1,1>>, <<0,1,1>>, <<0,0,1>> >>
    [] d = "BACK" -> << <<0,0,0>>, <<1,0,0>>, <<1,0,1>>, <<1,0,1>>, <<0,0,1>>, <<0,0,0>> >>
    [] d = "FRONT" -> << <<1,1,1>>, <<1,1,0>>, <<0,1,0>>, <<0,1,0>>, <<0,1,1>>, <<1,1,1>> >>

\* The step to the neighbour across a face: left/right on the first axis,
\* back/front on the second, bottom/top on the third.
FaceStep(d) ==
  CASE d = "LEFT" -> <<-1, 0, 0>>
    [] d = "RIGHT" -> <<1, 0, 0>>
    [] d = "BACK" -> <<0, -1, 0>>
    [] d = "FRONT" -> <<0, 1, 0>>
    [] d = "BOTTOM" -> <<0, 0, -1>>
    [] d = "TOP" -> <<0, 0, 1>>

\* Point::left() .. Point::top(): checked_add / checked_sub of one, None when
\* the neighbour leaves the coordinate type.
Neighbor(point, d, signed) ==
  LET n == PAdd(point, FaceStep(d))
  IN IF ~signed /\ \E i \in 1..3 : n[i] < 0 \/ n[i] >= PMod THEN None ELSE Some(n)

\* is_required: Ok(TRUE) unless the neighbour exists and the store has it.
IsRequired(vc, neighbor, chk) ==
  IF neighbor = None THEN Ok(TRUE)
  ELSE LET h == Has(vc, neighbor[1], chk)
       IN IF IsPanic(h) THEN Panic ELSE Ok(~h.ok)

\* on_border
OnBorder(bounds, point) ==
  \E i \in 1..3 : point[i] = bounds[1][i] \/ point[i] = bounds[2][i]

\* The vertices of one face of a cell, or <<>> when the face is filtered out.
FaceVertices(bounds, valid_side, point, d, required) ==
  LET vertices == [k \in 1..6 |-> PAdd(point, UnitFaceDelta(d)[k])]
  IN IF ~(d \in valid_side /\ required) THEN <<>>
     ELSE IF "BORDER" \notin valid_side /\ \E k \in 1..6 : OnBorder(bounds, vertices[k])
     THEN <<>>
     ELSE vertices

\* unit_faces of one cell, flattened: Ok(list of vertices), or Panic.
UnitFaces(vc, bounds, valid_side, point, chk) ==
  LET req == [k \in 1..6 |-> IsRequired(vc, Neighbor(point, FaceOrder[k], vc.signed), chk)]
      face(k) == FaceVertices(bounds, valid_side, point, FaceOrder[k], req[k].ok)
  IN IF \E k \in 1..6 : IsPanic(req[k]) THEN Panic
     ELSE Ok(face(1) \o face(2) \o face(3) \o face(4) \o face(5) \o face(6))

\* A list in place of the set: every value appended, never found.
InsertFull_Append(points, v) == <<Len(points), Append(points, v)>>

\* IndexSet::insert_full: the index of the value, appended when it is new.
InsertFull(points, v) ==
  IF \E k \in 1..Len(points) : points[k] = v
  THEN <<(CHOOSE k \in 1..Len(points) : points[k] = v) - 1, points>>
  ELSE <<Len(points), Append(points, v)>>

\* insert_full of every vertex in turn: <<indices, points>>.
RECURSIVE InsertFullAll(_, _, _)
InsertFullAll(points, vertices, indices) ==
  IF Len(vertices) = 0 THEN <<indices, points>>
  ELSE LET r == InsertFull(points, vertices[1])
       IN InsertFullAll(r[2], Tail(vertices), Append(indices, r[1]))

\* faces.entry(color).and_modify(extend).or_insert(collect)
FacesEntry(faces, color, indices) ==
  IF color \in DOMAIN faces
  THEN [faces EXCEPT ![color] = @ \o indices]
  ELSE faces @@ (color :> indices)

\* The for_each over to_points: the mesh after every cell, or Panic.
RECURSIVE MeshCells(_, _, _, _, _)
MeshCells(msh, vc, valid_side, cells, chk) ==
  IF Len(cells) = 0 THEN msh
  ELSE LET uf == UnitFaces(vc, msh.bounds, valid_side, cells[1][1], chk)
       IN IF IsPanic(uf) THEN Panic
          ELSE IF Len(uf.ok) = 0 THEN MeshCells(msh, vc, valid_side, Tail(cells), chk)
          ELSE LET r == InsertFullAll(msh.points, uf.ok, <<>>)
               IN MeshCells([msh EXCEPT !.points = r[2],
                                        !.faces = FacesEntry(@, cells[1][2], r[1])],
                            vc, valid_side, Tail(cells), chk)

\* Mesher::meshing: the VoxelMesh, or Panic.
Meshing(vc, valid_side, chk) ==
  LET gb == GetBounds(vc)
  IN IF IsPanic(gb) THEN Panic
     ELSE LET vc1 == gb.ok[2]
              bounds == <<gb.ok[1][1], PAdd(gb.ok[1][2], <<1, 1, 1>>)>>
              msh == [bounds |-> bounds, offset |-> vc1.offset,
                      resolution |-> vc1.resolution,
                      points |-> <<>>, faces |-> <<>>]
              tp == ToPoints(vc1)
          IN IF IsPanic(tp) THEN Panic
             ELSE MeshCells(msh, vc1, valid_side, tp.ok, chk)

\* ---- SpecMesh: a store built by new(), then meshed once

\* The cells a store to mesh is built from.
MeshPoints == {<<0, 0, 0>>, <<1, 0, 0>>, <<0, 0, 1>>, <<1, 1, 0>>}

\* One colour for the cell next to the origin on the first axis, another
\* for the rest.
CellColor(p) == IF p = <<1, 0, 0>> THEN ColorC ELSE ColorA

\* The voxel list of a set of cells.
MeshVoxels(cells) ==
  LET ks == KeySeq(cells)
  IN [k \in 1..Len(ks) |-> <<ks[k], VoxelNew(CellColor(ks[k]))>>]

MeshOffsets == {PointDefault, <<2, 2, 2>>}

InitMesh ==
  /\ overflowChecks \in BOOLEAN
  /\ \E kind \in Kinds, cells \in SUBSET MeshPoints, offset \in MeshOffsets :
       \E signed \in Signedness(kind) :
         \E bounds \in (IF kind \in Dense THEN {None, Some(Box)} ELSE {None}) :
           store = New(kind, signed, MeshVoxels(cells), bounds, offset, 1, overflowChecks)
  /\ ~IsPanic(store)
  /\ panicked = FALSE
  /\ last = None
  /\ nops = 0
  /\ hist = None
  /\ other = None
  /\ inserted = None
  /\ merged = None
  /\ mesh = None
  /\ input = None
  /\ output = None

\* Mesher::meshing(store.clone(), valid_side)
DoMeshing(valid_side) ==
  /\ mesh = None
  /\ mesh' = Some([vc |-> store, valid_side |-> valid_side,
                   result |-> Meshing(store, valid_side, overflowChecks)])
  /\ UNCHANGED <<store, hist, last, nops, panicked, overflowChecks, other, inserted,
                 merged, input, output>>

NextMesh == \E valid_side \in SUBSET ValidSideAll : DoMeshing(valid_side)

SpecMesh == InitMesh /\ [][NextMesh]_vars

\* A mesh has been produced.
Meshed == IsSome(mesh) /\ ~IsPanic(mesh[1].result)

\* The cells of a store: the coordinates to_vec reports with a weight >= 1.
OccupiedCells(s) == {ToVec(s)[k][1] : k \in OccupiedAt(s)}

\* The quads of a mesh: <<colour, k>> for the k-th run of six indices of a
\* colour (k from 0), and the six vertices such a run points at.
Quads(msh) ==
  UNION {{<<c, k>> : k \in 0..((Len(msh.faces[c]) \div 6) - 1)} : c \in DOMAIN msh.faces}

QuadVertices(msh, q) ==
  [j \in 1..6 |-> msh.points[msh.faces[q[1]][6 * q[2] + j] + 1]]

\* The quad of cell p towards d, as the vertices unit_faces lists for it.
CellQuad(p, d) == [j \in 1..6 |-> PAdd(p, UnitFaceDelta(d)[j])]

\* A face of an occupied cell that has to appear: its bit is set, the cell
\* across it is not occupied, and the border rule lets it through.
Exposed(vc, msh, valid_side, p, d) ==
  /\ d \in valid_side
  /\ PAdd(p, FaceStep(d)) \notin OccupiedCells(vc)
  /\ "BORDER" \in valid_side
       \/ \A j \in 1..6 : ~OnBorder(msh.bounds, CellQuad(p, d)[j])

\* C13: meshing emits no face between two face-adjacent occupied cells, and
\* for every occupied cell and direction exactly one quad when the face is
\* exposed (bit set, neighbour not occupied, border rule passed) and none
\* otherwise; cells (0,0,0) and (1,0,0) with all bits set give 10 faces over
\* 12 vertices.
C13_CullAndEmitOnce ==
  Meshed
    => LET vc == mesh[1].vc
           msh == mesh[1].result
           side == mesh[1].valid_side
           emitted(p, d) == {q \in Quads(msh) : QuadVertices(msh, q) = CellQuad(p, d)}
       IN /\ \A p \in OccupiedCells(vc) :
               \A k \in 1..6 :
                 Cardinality(emitted(p, FaceOrder[k])) =
                   IF Exposed(vc, msh, side, p, FaceOrder[k]) THEN 1 ELSE 0
          /\ \A q \in Quads(msh) :
               \E p \in OccupiedCells(vc), k \in 1..6 : q \in emitted(p, FaceOrder[k])
          /\ (OccupiedCells(vc) = {<<0, 0, 0>>, <<1, 0, 0>>} /\ side = ValidSideAll)
               => Cardinality(Quads(msh)) = 10 /\ Len(msh.points) = 12

\* The box of the cell corners of a store: from the least cell coordinate to
\* the greatest plus one, on every axis.
CornerBox(vc) ==
  LET axis(i) == {p[i] : p \in OccupiedCells(vc)}
  IN << [i \in 1..3 |-> Min(axis(i))], [i \in 1..3 |-> Max(axis(i)) + 1] >>

\* C14: with the BORDER bit off no emitted face has a corner on the bounding
\* surface of the mesh, for any store and offset, so a single cell at
\* (0,0,0) gives no face; with the bit on, no face is held back for
\* touching that surface.
C14_BorderRule ==
  (Meshed /\ OccupiedCells(mesh[1].vc) # {})
    => LET vc == mesh[1].vc
           msh == mesh[1].result
           side == mesh[1].valid_side
       IN /\ "BORDER" \notin side
               => /\ \A q \in Quads(msh) : \A j \in 1..6 :
                       ~OnBorder(CornerBox(vc), QuadVertices(msh, q)[j])
                  /\ OccupiedCells(vc) = {<<0, 0, 0>>} => Quads(msh) = {}
          /\ "BORDER" \in side
               => \A p \in OccupiedCells(vc), d \in side \ {"BORDER"} :
                    IsRequired(vc, Neighbor(p, d, vc.signed), overflowChecks).ok
                      => \E q \in Quads(msh) : QuadVertices(msh, q) = CellQuad(p, d)

\* C16: the bounds of a mesh span the extent of the occupied cells plus one
\* on every axis, whatever the offset of the store, and every vertex lies
\* inside them.
C16_MeshBounds ==
  (Meshed /\ OccupiedCells(mesh[1].vc) # {})
    => LET vc == mesh[1].vc
           msh == mesh[1].result
           box == CornerBox(vc)
       IN /\ \A i \in 1..3 :
               msh.bounds[2][i] - msh.bounds[1][i] = box[2][i] - box[1][i]
          /\ \A k \in 1..Len(msh.points) : \A i \in 1..3 :
               /\ msh.bounds[1][i] <= msh.points[k][i]
               /\ msh.points[k][i] <= msh.bounds[2][i]

\* C15: in every mesh produced the vertex list has no duplicate, every index
\* of every colour is a position of the vertex list, every vertex is pointed
\* at by some index, and every colour's index list is a whole number of
\* triangles.
C15_IndexedVertices ==
  Meshed
    => LET msh == mesh[1].result
           n == Len(msh.points)
       IN /\ \A j, k \in 1..n : msh.points[j] = msh.points[k] => j = k
          /\ \A c \in DOMAIN msh.faces : \A k \in 1..Len(msh.faces[c]) :
               0 <= msh.faces[c][k] /\ msh.faces[c][k] < n
          /\ \A j \in 0..(n - 1) :
               \E c \in DOMAIN msh.faces : \E k \in 1..Len(msh.faces[c]) :
                 msh.faces[c][k] = j
          /\ \A c \in DOMAIN msh.faces : Len(msh.faces[c]) % 3 = 0

\* Two adjacent cells of different colours, meshed on every side: vertices
\* shared between faces and between the two colours.
C15_Witness ==
  /\ Meshed
  /\ OccupiedCells(mesh[1].vc) = {<<0, 0, 0>>, <<1, 0, 0>>}
  /\ mesh[1].valid_side = ValidSideAll
  /\ Len(mesh[1].result.points) = 12
  /\ Cardinality(DOMAIN mesh[1].result.faces) = 2
  /\ Cardinality(Quads(mesh[1].result)) = 10

\* (a - o) x (b - o)
Cross(o, a, b) ==
  LET u == PSub(a, o)
      v == PSub(b, o)
  IN << u[2] * v[3] - u[3] * v[2], u[3] * v[1] - u[1] * v[3], u[1] * v[2] - u[2] * v[1] >>

\* C17: the six vertices emitted for a face are two triangles, each with a
\* right-handed normal that is a positive multiple of the face's outward
\* direction (LEFT -x, RIGHT +x, BACK -y, FRONT +y, BOTTOM -z, TOP +z); all
\* six lie in the plane of that face of the cell, and together they are its
\* four corners, the triangles sharing one diagonal.
C17_FaceWinding ==
  Meshed
    => \A k \in 1..6 :
         mesh[1].valid_side = {FaceOrder[k], "BORDER"}
           => \A q \in Quads(mesh[1].result) :
                LET v == QuadVertices(mesh[1].result, q)
                    out == FaceStep(FaceOrder[k])
                    axis == CHOOSE i \in 1..3 : out[i] # 0
                IN /\ \E m \in 1..4 : Cross(v[1], v[2], v[3]) = [i \in 1..3 |-> m * out[i]]
                   /\ \E m \in 1..4 : Cross(v[4], v[5], v[6]) = [i \in 1..3 |-> m * out[i]]
                   /\ \E p \in OccupiedCells(mesh[1].vc) : \A j \in 1..6 :
                        /\ \A i \in 1..3 : v[j][i] - p[i] \in {0, 1}
                        /\ v[j][axis] - p[axis] = IF out[axis] > 0 THEN 1 ELSE 0
                   /\ Cardinality({v[j] : j \in 1..6}) = 4
                   /\ Cardinality({v[1], v[2], v[3]} \cap {v[4], v[5], v[6]}) = 2

\* FRONT alone has been meshed, for a store of two cells.
C17_Witness ==
  /\ Meshed
  /\ mesh[1].valid_side = {"FRONT", "BORDER"}
  /\ Cardinality(Quads(mesh[1].result)) = 2

\* ------------------------------------------------------------------------
\* VoxelPointCloud::split_by_tile (src/src/voxel.rs), SpecTile: a point
\* cloud in pixel coordinates, split once.
\* ------------------------------------------------------------------------

\* Longest point list of a cloud to split.
MaxTilePoints == 3

\* The side of a tile in pixels.
TileSize == 256

\* Rounding to the nearest tile border in place of the division.
TileIdxOf_Nearest(pixel_coord) ==
  <<(pixel_coord[1] + 128) \div TileSize, (pixel_coord[2] + 128) \div TileSize>>

\* tile_idx of a pixel coordinate (u32 division).
TileIdxOf(pixel_coord) ==
  <<pixel_coord[1] \div TileSize, pixel_coord[2] \div TileSize>>

\* The for_each over the points: the map from tile index to the points
\* pushed into its bucket, in the order of the input.
RECURSIVE TiledPoints(_, _)
TiledPoints(tiled_points, points) ==
  IF Len(points) = 0 THEN tiled_points
  ELSE LET tile_idx == TileIdxOf(points[1][1])
       IN TiledPoints(
            IF tile_idx \in DOMAIN tiled_points
            THEN [tiled_points EXCEPT ![tile_idx] = Append(@, points[1])]
            ELSE tiled_points @@ (tile_idx :> <<points[1]>>),
            Tail(points))

\* split_by_tile: the list of (tile index, cloud); the order in which the
\* HashMap is drained is not specified, the model drains it in key order.
SplitByTile(cloud) ==
  LET tiled_points == TiledPoints(<<>>, cloud.points)
      keys == KeySeq(DOMAIN tiled_points)
  IN [k \in 1..Len(keys) |->
        <<keys[k], [points |-> tiled_points[keys[k]], zoom_lv |-> cloud.zoom_lv]>>]

\* Pixel coordinates on both sides of a tile border, and two colours.
TilePixels ==
  {<<x, y, 0>> : x \in {TileSize - 1, TileSize, 2 * TileSize}, y \in {TileSize - 1, 300}}

TileColors == {<<60, 120, 180>>, <<0, 0, 0>>}

InitTile ==
  /\ input \in {[points |-> l, zoom_lv |-> 18] :
                  l \in ListsUpTo(TilePixels \X TileColors, MaxTilePoints)}
  /\ output = None
  /\ store = None
  /\ overflowChecks = FALSE
  /\ panicked = FALSE
  /\ last = None
  /\ nops = 0
  /\ hist = None
  /\ other = None
  /\ inserted = None
  /\ merged = None
  /\ mesh = None

\* input.split_by_tile()
DoSplitByTile ==
  /\ output = None
  /\ output' = Some(SplitByTile(input))
  /\ UNCHANGED <<store, hist, last, nops, panicked, overflowChecks, other, inserted,
                 merged, mesh, input>>

NextTile == DoSplitByTile

SpecTile == InitTile /\ [][NextTile]_vars

\* How many times x occurs in a list.
Occurrences(seq, x) == Cardinality({k \in 1..Len(seq) : seq[k] = x})

\* C18: split_by_tile puts every point (x, y, z) into the one bucket keyed
\* (x div 256, y div 256); the buckets hold the input points, none lost and
\* none twice; a tile index appears once and no bucket is empty; pixels
\* (255, 300) and (256, 300) go to tiles (0,1) and (1,1).
C18_TilePartition ==
  IsSome(output)
    => LET tiles == output[1]
           n == Len(tiles)
       IN /\ \A j, k \in 1..n : tiles[j][1] = tiles[k][1] => j = k
          /\ \A k \in 1..n : Len(tiles[k][2].points) > 0
          /\ \A k \in 1..n : \A j \in 1..Len(tiles[k][2].points) :
               LET pt == tiles[k][2].points[j][1]
               IN tiles[k][1] = <<pt[1] \div 256, pt[2] \div 256>>
          /\ \A x \in TilePixels \X TileColors :
               LET held == {k \in 1..n : Occurrences(tiles[k][2].points, x) > 0}
               IN /\ Cardinality(held) = IF Occurrences(input.points, x) > 0 THEN 1 ELSE 0
                  /\ \A k \in held :
                       Occurrences(tiles[k][2].points, x) = Occurrences(input.points, x)
          /\ \A k \in 1..n : \A j \in 1..Len(tiles[k][2].points) :
               /\ Fit(tiles[k][2].points[j][1]) = <<255, 300>> => tiles[k][1] = <<0, 1>>
               /\ Fit(tiles[k][2].points[j][1]) = <<256, 300>> => tiles[k][1] = <<1, 1>>

\* Pixels (255, 300) and (256, 300) split into two tiles of one point each.
C18_Witness ==
  /\ IsSome(output)
  /\ Len(output[1]) = 2
  /\ \E c \in TileColors :
       /\ output[1][1] = <<<<0, 1>>, [points |-> << <<<<255, 300, 0>>, c>> >>, zoom_lv |-> 18]>>
       /\ output[1][2] = <<<<1, 1>>, [points |-> << <<<<256, 300, 0>>, c>> >>, zoom_lv |-> 18]>>

\* ------------------------------------------------------------------------
\* The colour pool of one cell under the default options (SpecPool):
\* Color = u8, Weight = u8, ColorPool = u16, and weight-1 inserts of u8
\* colours into the cell at the origin.  hist is the sum of the colours of
\* the first W::MAX inserts, in unbounded integers.
\* ------------------------------------------------------------------------

\* Longest run of inserts into the cell: beyond W::MAX.
MaxPoolInserts == 260

\* Color = u8: the largest channel of an input colour.
ColorMax == 255

\* The brightest colour and a mixed one.
PoolColors == {<<ColorMax, ColorMax, ColorMax>>, <<0, 128, ColorMax>>}

\* The stores the default options calculate in: Simple, MapTile, Terrain.
PoolKinds == {"HMap3D", "Vec3", "Vec2"}

InitPool ==
  /\ overflowChecks \in BOOLEAN
  /\ \E kind \in PoolKinds :
       store = New(kind, TRUE, <<>>, None, PointDefault, 1, overflowChecks)
  /\ hist = <<0, 0, 0>>
  /\ nops = 0
  /\ panicked = FALSE
  /\ last = None
  /\ other = None
  /\ inserted = None
  /\ merged = None
  /\ mesh = None
  /\ input = None
  /\ output = None

\* store.insert_one(Point3D::default(), Voxel::new(c))
PoolInsertOne(c) ==
  /\ ~panicked
  /\ nops < MaxPoolInserts
  /\ LET r == InsertOne(store, PointDefault, VoxelNew(c), overflowChecks)
     IN /\ panicked' = IsPanic(r)
        /\ store' = IF IsPanic(r) THEN store ELSE r
  /\ hist' = IF nops < 255 THEN PAdd(hist, c) ELSE hist
  /\ nops' = nops + 1
  /\ UNCHANGED <<last, overflowChecks, other, inserted, merged, mesh, input, output>>

NextPool == \E c \in PoolColors : PoolInsertOne(c)

SpecPool == InitPool /\ [][NextPool]_vars

\* C19: with Color = u8, Weight = u8 and ColorPool = u16 no run of weight-1
\* inserts of u8 colours into a cell overflows a channel of the colour sum:
\* no insert panics, the stored sum is the true sum of the colours counted
\* (the first W::MAX of them) and never exceeds 255 * 255.
C19_PoolNoOverflow ==
  /\ ~panicked
  /\ nops > 0
       => \E k \in OccupiedAt(store) :
            LET v == ToVec(store)[k][2]
            IN /\ v.weight = IF nops < 255 THEN nops ELSE 255
               /\ v.color = hist
               /\ \A i \in 1..3 : v.color[i] <= 255 * 255 /\ v.color[i] <= 65535

\* The cell has taken more than W::MAX white points and holds 255 * 255.
C19_Witness ==
  /\ nops > 255
  /\ \E k \in OccupiedAt(store) :
       ToVec(store)[k][2] = [color |-> <<65025, 65025, 65025>>, weight |-> 255]

\* ------------------------------------------------------------------------
\* GlbGen (src/src/glb_gen.rs), SpecGlb: the binary layout of the GLB made
\* from a VoxelMesh.  Vertex positions, UVs and the JSON text are carried by
\* their number of elements or bytes only; the layout depends on nothing
\* else.
\* ------------------------------------------------------------------------

\* Most vertices of a mesh handed to the writer.
MaxGlbVertices == 5
\* Longest texture image, in bytes.
MaxTextureBytes == 5

\* mem::size_of::<Vertex>(): [f32; 3]
SizeOfVertex == 12
\* mem::size_of::<UV>(): [f32; 2]
SizeOfUV == 8
\* mem::size_of::<u32>()
SizeOfU32 == 4

\* usize is 64 bits wide where the writers can meet a length of 2^32; a
\* usize is carried as its four 16-bit digits, least significant first.
WideBase == 2 ^ 16

ToWide(n) == <<n % WideBase, n \div WideBase, 0, 0>>

IsSmall(w) == w[3] = 0 /\ w[4] = 0 /\ w[2] < WideBase \div 2

Small(w) == w[1] + WideBase * w[2]

\* a + b in usize: the digits of the wrapped sum, and whether it overflowed.
WideAdd(a, b) ==
  LET s1 == a[1] + b[1]
      s2 == a[2] + b[2] + s1 \div WideBase
      s3 == a[3] + b[3] + s2 \div WideBase
      s4 == a[4] + b[4] + s3 \div WideBase
  IN [digits |-> <<s1 % WideBase, s2 % WideBase, s3 % WideBase, s4 % WideBase>>,
      overflow |-> s4 >= WideBase]

\* round_up_to_mul_of_four, for an n within the model's integers.
RoundUpToMulOfFour_Next(n) ==
  LET remainder == n % 4
  IN n + 4 - remainder

RoundUpToMulOfFour(n) ==
  LET remainder == n % 4
  IN IF remainder = 0 THEN n ELSE n + 4 - remainder

\* round_up_to_mul_of_four for any usize n: Ok(result), or Panic when n + 4
\* overflows under overflow checks; without them the sum wraps.
RoundUpToMulOfFourWide(n, chk) ==
  LET remainder == n[1] % 4
      sum == WideAdd(n, ToWide(4))
  IN IF remainder = 0 THEN Ok(n)
     ELSE IF sum.overflow /\ chk THEN Panic
     ELSE IF sum.overflow THEN Ok(ToWide(sum.digits[1] - remainder))
     ELSE Ok(WideAdd(n, ToWide(4 - remainder)).digits)

\* pad_to_mul_of_four: vec, followed by T::default() up to a multiple of 4.
PadToMulOfFour_Always(vec, default) ==
  LET remainder == Len(vec) % 4
  IN vec \o [k \in 1..(4 - remainder) |-> default]

PadToMulOfFour(vec, default) ==
  LET remainder == Len(vec) % 4
  IN IF remainder # 0 THEN vec \o [k \in 1..(4 - remainder) |-> default] ELSE vec

RECURSIVE SumSeq(_)
SumSeq(seq) == IF Len(seq) = 0 THEN 0 ELSE seq[1] + SumSeq(Tail(seq))

\* The index lists of a mesh, one per colour, in the order the faces map is
\* drained (not specified by DashMap; by colour here).
IndexLists(voxel_mesh) ==
  LET colors == KeySeq(DOMAIN voxel_mesh.faces)
  IN [k \in 1..Len(colors) |-> voxel_mesh.faces[colors[k]]]

\* Vertex([x, z, -y]): the position written for a mesh point.
Vertex(point) == <<point[1], point[3], 0 - point[2]>>

VertexDefault == <<0, 0, 0>>

GlbErr == [err |-> "file size exceeds binary glTF limit"]

\* (json_offset + buffer_length).try_into(): the u32, or the error.
TryIntoU32_Truncating(length) == Ok(<<length[1], length[2], 0, 0>>)

TryIntoU32(length) ==
  IF length[3] = 0 /\ length[4] = 0 THEN Ok(length) ELSE GlbErr

\* Header { length: json_offset + buffer_length }, json_len being the usize
\* length of the serialised JSON: Ok(length), the error, or Panic.
HeaderLength(json_len, buffer_length, chk) ==
  LET json_offset == RoundUpToMulOfFourWide(json_len, chk)
  IN IF IsPanic(json_offset) THEN Panic
     ELSE LET sum == WideAdd(json_offset.ok, ToWide(buffer_length))
          IN IF sum.overflow /\ chk THEN Panic ELSE TryIntoU32(sum.digits)

\* from_voxel_mesh: the buffer, its views, the accessors into them, the
\* vertices and the number of bytes of the BIN chunk, and the length written
\* to the header; the error when the length does not fit, or Panic.
FromVoxelMesh(voxel_mesh, json_len, chk) ==
  LET vertices == [k \in 1..Len(voxel_mesh.points) |-> Vertex(voxel_mesh.points[k])]
      indices == IndexLists(voxel_mesh)
      padded_vertices_length == RoundUpToMulOfFour(Len(vertices)) * SizeOfVertex
      padded_indices_length ==
        [i \in 1..Len(indices) |-> RoundUpToMulOfFour(Len(indices[i])) * SizeOfU32]
      buffer_length == padded_vertices_length + SumSeq(padded_indices_length)
      min == voxel_mesh.bounds[1]
      max == voxel_mesh.bounds[2]
      length == HeaderLength(json_len, buffer_length, chk)
  IN IF IsPanic(length) \/ IsErr(length) THEN length ELSE
     [buffer_length |-> buffer_length,
      views |-> << [name |-> "vertices", byte_offset |-> 0,
                    byte_length |-> padded_vertices_length],
                   [name |-> "indices", byte_offset |-> padded_vertices_length,
                    byte_length |-> SumSeq(padded_indices_length)] >>,
      accessors |-> << [view |-> "vertices", byte_offset |-> 0, count |-> Len(vertices),
                        min |-> min, max |-> max] >> \o
                    [i \in 1..Len(indices) |->
                       [view |-> "indices",
                        byte_offset |-> SumSeq(SubSeq(padded_indices_length, 1, i - 1)),
                        count |-> Len(indices[i])]],
      vertices |-> vertices,
      bin_length |-> Len(PadToMulOfFour(vertices, VertexDefault)) * SizeOfVertex
                     + SumSeq([i \in 1..Len(indices) |->
                                 Len(PadToMulOfFour(indices[i], 0)) * SizeOfU32]),
      header_length |-> length.ok]

\* The UVs: for every mesh point, (point - offset) and the (max - min) it is
\* divided by, both cut to x and y, in Ok; or Panic when a subtraction
\* overflows.
Uv(voxel_mesh, signed, chk) ==
  LET min == voxel_mesh.bounds[1]
      max == voxel_mesh.bounds[2]
      offset == PAdd(min, voxel_mesh.offset)
      size == PSubChecked(max, min, signed, chk)
      p == [k \in 1..Len(voxel_mesh.points) |->
              PSubChecked(voxel_mesh.points[k], offset, signed, chk)]
  IN IF IsPanic(size) \/ \E k \in 1..Len(p) : IsPanic(p[k]) THEN Panic
     ELSE Ok([k \in 1..Len(p) |-> [p |-> Fit(p[k].ok), size |-> Fit(size.ok)]])

UvDefault == [p |-> <<0, 0>>, size |-> <<1, 1>>]

\* from_voxel_mesh_with_texture_projected_z: the same for the textured GLB.
\* texture is None or Some(number of bytes of the image).
FromVoxelMeshWithTextureProjectedZ(voxel_mesh, texture, json_len, signed, chk) ==
  LET vertices == [k \in 1..Len(voxel_mesh.points) |-> Vertex(voxel_mesh.points[k])]
      lists == IndexLists(voxel_mesh)
      vertex_indices ==
        [j \in 1..SumSeq([i \in 1..Len(lists) |-> Len(lists[i])]) |->
           LET i == CHOOSE i \in 1..Len(lists) :
                      /\ j > SumSeq([h \in 1..(i - 1) |-> Len(lists[h])])
                      /\ j <= SumSeq([h \in 1..i |-> Len(lists[h])])
           IN lists[i][j - SumSeq([h \in 1..(i - 1) |-> Len(lists[h])])]]
      uvs == Uv(voxel_mesh, signed, chk)
  IN IF IsPanic(uvs) THEN Panic ELSE
  LET uv == uvs.ok
      padded_vertices_length == RoundUpToMulOfFour(Len(vertices)) * SizeOfVertex
      padded_indices_length == RoundUpToMulOfFour(Len(vertex_indices)) * SizeOfU32
      padded_uv_length == RoundUpToMulOfFour(Len(uv)) * SizeOfUV
      texture_length == IF IsSome(texture) THEN texture[1] ELSE 0
      buffer_length ==
        padded_vertices_length + padded_indices_length + padded_uv_length + texture_length
      min == voxel_mesh.bounds[1]
      max == voxel_mesh.bounds[2]
      length == HeaderLength(json_len, buffer_length, chk)
  IN IF IsPanic(length) \/ IsErr(length) THEN length ELSE
     [buffer_length |-> buffer_length,
      views |-> << [name |-> "vertices", byte_offset |-> 0,
                    byte_length |-> padded_vertices_length],
                   [name |-> "indices", byte_offset |-> padded_vertices_length,
                    byte_length |-> padded_indices_length],
                   [name |-> "uv",
                    byte_offset |-> padded_vertices_length + padded_indices_length,
                    byte_length |-> padded_uv_length] >> \o
                (IF IsSome(texture)
                 THEN << [name |-> "texture",
                          byte_offset |-> padded_vertices_length + padded_indices_length
                                          + padded_uv_length,
                          byte_length |-> texture_length] >>
                 ELSE <<>>),
      accessors |-> << [view |-> "vertices", byte_offset |-> 0, count |-> Len(vertices),
                        min |-> min, max |-> max],
                       [view |-> "indices", byte_offset |-> 0,
                        count |-> Len(vertex_indices)],
                       [view |-> "uv", byte_offset |-> 0, count |-> Len(uv)] >>,
      vertices |-> vertices,
      bin_length |-> Len(PadToMulOfFour(vertices, VertexDefault)) * SizeOfVertex
                     + Len(PadToMulOfFour(vertex_indices, 0)) * SizeOfU32
                     + Len(PadToMulOfFour(uv, UvDefault)) * SizeOfUV
                     + texture_length,
      header_length |-> length.ok]

\* Meshes handed to the writer: the first n corners of the cell (0, 0, 0)
\* as vertices, and for each of up to two colours a list of 3 or 6 indices
\* into them; bounds as meshing leaves them for that cell (the offset
\* included, one past the cell).
GlbIndexLens == {0, 3, 6}

GlbCorners ==
  << <<0, 0, 0>>, <<1, 0, 0>>, <<0, 1, 0>>, <<0, 0, 1>>,
     <<1, 1, 0>>, <<1, 0, 1>>, <<0, 1, 1>>, <<1, 1, 1>> >>

GlbMesh(n, lenA, lenC, offset) ==
  LET lens == [c \in {ColorA, ColorC} |-> IF c = ColorA THEN lenA ELSE lenC]
      colors == {c \in {ColorA, ColorC} : lens[c] > 0}
  IN [points |-> [k \in 1..n |-> GlbCorners[k]],
      faces |-> [c \in colors |-> [j \in 1..lens[c] |-> (j - 1) % n]],
      bounds |-> <<offset, PAdd(offset, <<1, 1, 1>>)>>,
      offset |-> offset,
      resolution |-> 1]

GlbMeshes ==
  {GlbMesh(n, lenA, lenC, offset) :
     n \in 1..MaxGlbVertices, lenA \in GlbIndexLens, lenC \in GlbIndexLens,
     offset \in {PointDefault, <<1, 0, 0>>}}

\* The length of the serialised JSON: two of a small scene, one that leaves
\* room below 2^32 for the smaller buffers only, and one that leaves none.
JsonLens == {ToWide(600), ToWide(601), <<65436, 65535, 0, 0>>, <<65535, 65535, 0, 0>>}

InitGlb ==
  /\ input \in [mesh : GlbMeshes,
                texture : {None} \cup {Some(b) : b \in 0..MaxTextureBytes},
                json_len : JsonLens,
                signed : BOOLEAN]
  /\ overflowChecks \in BOOLEAN
  /\ output = None
  /\ store = None
  /\ panicked = FALSE
  /\ last = None
  /\ hist = None
  /\ nops = 0
  /\ other = None
  /\ inserted = None
  /\ merged = None
  /\ mesh = None

DoFromVoxelMesh ==
  /\ output = None
  /\ output' = Some([fn |-> "from_voxel_mesh",
                     glb |-> FromVoxelMesh(input.mesh, input.json_len, overflowChecks)])
  /\ UNCHANGED <<store, hist, last, nops, panicked, overflowChecks, other, inserted,
                 merged, mesh, input>>

DoFromVoxelMeshWithTextureProjectedZ ==
  /\ output = None
  /\ LET glb == FromVoxelMeshWithTextureProjectedZ(
                  input.mesh, input.texture, input.json_len, input.signed, overflowChecks)
     IN /\ output' = Some([fn |-> "from_voxel_mesh_with_texture_projected_z", glb |-> glb])
        /\ panicked' = IsPanic(glb)
  /\ UNCHANGED <<store, hist, last, nops, overflowChecks, other, inserted,
                 merged, mesh, input>>

NextGlb == DoFromVoxelMesh \/ DoFromVoxelMeshWithTextureProjectedZ

SpecGlb == InitGlb /\ [][NextGlb]_vars

\* C20: every buffer view of a GLB written by from_voxel_mesh or by
\* from_voxel_mesh_with_texture_projected_z (vertices, indices, UVs and the
\* embedded texture image) starts at a multiple of 4 bytes and is a multiple
\* of 4 bytes long.
C20_ViewsAligned ==
  (IsSome(output) /\ ~IsPanic(output[1].glb) /\ ~IsErr(output[1].glb)) =>
    \A k \in 1..Len(output[1].glb.views) :
      /\ output[1].glb.views[k].byte_offset % 4 = 0
      /\ output[1].glb.views[k].byte_length % 4 = 0

\* The smallest multiple of 4 that is not below the usize w.
Align4(w) ==
  LET d == CHOOSE d \in 0..3 : (w[1] + d) % 4 = 0
  IN WideAdd(w, ToWide(d)).digits

\* The bytes a writer has to emit for its input: every list padded to a
\* multiple of 4 elements, and the image as it is.
BinBytes(fn) ==
  LET n == Len(input.mesh.points)
      cs == KeySeq(DOMAIN input.mesh.faces)
      pad(k) == 4 * ((k + 3) \div 4)
      image == IF IsSome(input.texture) THEN input.texture[1] ELSE 0
  IN IF fn = "from_voxel_mesh"
     THEN pad(n) * 12
          + SumSeq([k \in 1..Len(cs) |-> pad(Len(input.mesh.faces[cs[k]])) * 4])
     ELSE pad(n) * 12
          + pad(SumSeq([k \in 1..Len(cs) |-> Len(input.mesh.faces[cs[k]])])) * 4
          + pad(n) * 8 + image

\* C21: a GLB writer that returns a Glb has set the header length to
\* align4(json_len) + buffer_len, buffer_len being the declared byte length
\* of the buffer and the number of bytes of the binary chunk; it returns the
\* size-exceeded error, and no Glb, exactly when that total does not fit in
\* a u32.
C21_HeaderLength ==
  (IsSome(output) /\ ~IsPanic(output[1].glb)) =>
    LET glb == output[1].glb
        total == WideAdd(Align4(input.json_len), ToWide(BinBytes(output[1].fn))).digits
        fits == total[3] = 0 /\ total[4] = 0
    IN /\ IsErr(glb) <=> ~fits
       /\ ~IsErr(glb) =>
            /\ glb.header_length = total
            /\ glb.buffer_length = BinBytes(output[1].fn)
            /\ glb.bin_length = glb.buffer_length

\* Both writers have met a total that a u32 cannot hold for a JSON text that
\* would have fitted with a smaller buffer.
C21_Witness ==
  /\ IsSome(output)
  /\ IsErr(output[1].glb)
  /\ input.json_len = <<65436, 65535, 0, 0>>

\* ------------------------------------------------------------------------
\* JTerrainImageSampler (src/src/image_sampler.rs), SpecTerrain.  Altitudes
\* and the resolution are f64 metres in the code; the model carries both in
\* hundredths of a metre, the unit u of the encoding.
\* ------------------------------------------------------------------------

\* Most pixels of an altitude image.
MaxPixels == 2

\* const TILE_SIZE: u32 = 256
TILE_SIZE == 256

\* x = 2^16 r + 2^8 g + b
HeightValue(height) == (2 ^ 16) * height[1] + (2 ^ 8) * height[2] + height[3]

\* z: the altitude of a pixel, None for the no-data value.
Altitude_Unsigned(height) ==
  LET x == HeightValue(height)
  IN IF x < 2 ^ 23 THEN Some(x)
     ELSE IF x > 2 ^ 23 THEN Some(x)
     ELSE None

Altitude(height) ==
  LET x == HeightValue(height)
  IN IF x < 2 ^ 23 THEN Some(x)
     ELSE IF x > 2 ^ 23 THEN Some(x - 2 ^ 24)
     ELSE None

\* (z / resolution) as u32: the quotient cut towards zero, a negative one
\* saturating to 0.  (The quotient of a 24-bit altitude stays below u32::MAX
\* for every resolution of a tile.)
ZAsU32(z, resolution) ==
  IF z < 0 THEN 0 ELSE z \div resolution

\* The points of the pixels from the k-th on: for a pixel with data, the
\* column (x, y, 0..=z) in the pixel's colour.
RECURSIVE SamplePixels(_, _, _, _)
SamplePixels(resolution, altitude_image, color_image, k) ==
  IF k > Len(altitude_image) \/ k > Len(color_image) THEN <<>>
  ELSE LET x == (k - 1) % TILE_SIZE
           y == (k - 1) \div TILE_SIZE
           z == Altitude(altitude_image[k])
           column ==
             IF IsSome(z)
             THEN [zz \in 1..(ZAsU32(z[1], resolution) + 1) |->
                     <<<<x, y, zz - 1>>, color_image[k]>>]
             ELSE <<>>
       IN column \o SamplePixels(resolution, altitude_image, color_image, k + 1)

\* sampling: the store built from the points.  color_image is None or
\* Some(pixels); without it every pixel is black.
Sampling(resolution, altitude_image, color_image, chk) ==
  LET colors == IF IsSome(color_image) THEN color_image[1]
                ELSE [k \in 1..(TILE_SIZE * TILE_SIZE) |-> <<0, 0, 0>>]
      points == SamplePixels(resolution, altitude_image, colors, 1)
      voxels == [k \in 1..Len(points) |-> <<points[k][1], VoxelNew(points[k][2])>>]
  IN HMap3DNew(FALSE, voxels, None, PointDefault, resolution, chk)

\* Pixel values on both sides of the no-data value 2^23 and of zero.
TerrainValues == {0, 1, 5000000, 2 ^ 23 - 1, 2 ^ 23, 2 ^ 23 + 1, 2 ^ 24 - 5000000, 2 ^ 24 - 1}

HeightOf(v) == <<v \div (2 ^ 16), (v \div (2 ^ 8)) % (2 ^ 8), v % (2 ^ 8)>>

\* pixel_resolution at the lowest zoom levels, in hundredths of a metre.
TerrainResolutions == {4000000, 8000000}

InitTerrain ==
  /\ \E altitude_image \in ListsUpTo({HeightOf(v) : v \in TerrainValues}, MaxPixels) :
       input \in [resolution : TerrainResolutions,
                  altitude_image : {altitude_image},
                  color_image : {None} \cup
                    {Some(c) : c \in [1..Len(altitude_image) -> {ColorA, ColorC}]}]
  /\ overflowChecks \in BOOLEAN
  /\ output = None
  /\ store = None
  /\ panicked = FALSE
  /\ last = None
  /\ hist = None
  /\ nops = 0
  /\ other = None
  /\ inserted = None
  /\ merged = None
  /\ mesh = None

\* sampling; the altitudes decoded on the way are kept beside the store.
DoSampling ==
  /\ output = None
  /\ LET r == Sampling(input.resolution, input.altitude_image, input.color_image,
                       overflowChecks)
     IN /\ output' = Some([store |-> r,
                           z |-> [k \in 1..Len(input.altitude_image) |->
                                    Altitude(input.altitude_image[k])]])
        /\ panicked' = IsPanic(r)
  /\ UNCHANGED <<store, hist, last, nops, overflowChecks, other, inserted,
                 merged, mesh, input>>

NextTerrain == DoSampling

SpecTerrain == InitTerrain /\ [][NextTerrain]_vars

\* The cells the sampler's store holds over pixel k.
PixelCells(k) ==
  {p \in DOMAIN output[1].store.field :
     p[1] = (k - 1) % TILE_SIZE /\ p[2] = (k - 1) \div TILE_SIZE}

\* C22: a pixel with bytes (r, g, b) and v = 2^16 r + 2^8 g + b is omitted
\* exactly when v = 2^23; otherwise its altitude in hundredths of a metre is
\* v when v < 2^23 and v - 2^24 when v > 2^23.
C22_AltitudeDecoding ==
  IsSome(output) =>
    \A k \in 1..Len(input.altitude_image) :
      LET v == 65536 * input.altitude_image[k][1] + 256 * input.altitude_image[k][2]
               + input.altitude_image[k][3]
      IN /\ (PixelCells(k) = {}) <=> (v = 8388608)
         /\ (output[1].z[k] = None) <=> (v = 8388608)
         /\ v < 8388608 => output[1].z[k] = Some(v)
         /\ v > 8388608 => output[1].z[k] = Some(v - 16777216)

\* An image with a no-data pixel and a pixel of negative altitude has been
\* sampled.
C22_Witness ==
  /\ IsSome(output)
  /\ \E k \in 1..Len(input.altitude_image) : output[1].z[k] = None
  /\ \E k \in 1..Len(input.altitude_image) :
       output[1].z[k] # None /\ output[1].z[k][1] < 0

\* C23: the sampler's store holds, for each pixel (x, y) that carries data,
\* exactly one voxel, at (x, y, z) with z = floor(altitude / resolution),
\* negative altitudes included, and no voxel for a pixel without data.
C23_OneVoxelPerPixel ==
  (IsSome(output) /\ ~IsPanic(output[1].store)) =>
    \A k \in 1..Len(input.altitude_image) :
      LET v == HeightValue(input.altitude_image[k])
          altitude == IF v < 8388608 THEN v ELSE v - 16777216
      IN IF v = 8388608 THEN PixelCells(k) = {}
         ELSE PixelCells(k) = {<<(k - 1) % TILE_SIZE, (k - 1) \div TILE_SIZE,
                                 altitude \div input.resolution>>}

\* ------------------------------------------------------------------------
\* The LAS readers (src/src/tiler.rs, src/src/voxelizer.rs), SpecLas: the
\* conversion of the points of a LAS file to the points of a pixel point
\* cloud.  jpr2ll and ll2pixel belong to coordinate_transformer; a LAS point
\* carries the pixel they return for it, and its z and the pixel resolution
\* at its latitude in hundredths of a metre.
\* ------------------------------------------------------------------------

\* Most points of a LAS file.
MaxLasPoints == 2

\* u8::MAX
U8Max == 255

\* (channel / u8::MAX as u16) as u8
FlattenChannel(channel) == (channel \div U8Max) % (U8Max + 1)

\* The point made of a LAS point.
FromLasPoint(point) ==
  LET z == ZAsU32(point.z, point.pixel_resolution)
      color == IF IsSome(point.color) THEN point.color[1] ELSE <<0, 0, 0>>
      r == FlattenChannel(color[1])
      g == FlattenChannel(color[2])
      b == FlattenChannel(color[3])
  IN << <<point.pixel[1], point.pixel[2], z>>, <<r, g, b>> >>

\* from_jpr_las, up to PixelPointCloud::new(jpr_points, zoom_lv).
FromJprLas(las, zoom_lv) ==
  [points |-> [k \in 1..Len(las) |-> FromLasPoint(las[k])], zoom_lv |-> zoom_lv]

LasChannels == {0, U8Max, U8Max + 1, 65280, 65535}

LasColors ==
  {None, Some(<<0, U8Max + 1, 65535>>)} \cup {Some(<<c, c, c>>) : c \in LasChannels}

LasPoints ==
  [pixel : {<<0, 0>>, <<256, 1>>}, z : {-150, 250}, pixel_resolution : {100},
   color : LasColors]

InitLas ==
  /\ input \in [las : ListsUpTo(LasPoints, MaxLasPoints), zoom_lv : {18}]
  /\ overflowChecks = FALSE
  /\ output = None
  /\ store = None
  /\ panicked = FALSE
  /\ last = None
  /\ hist = None
  /\ nops = 0
  /\ other = None
  /\ inserted = None
  /\ merged = None
  /\ mesh = None

DoFromJprLas ==
  /\ output = None
  /\ output' = Some(FromJprLas(input.las, input.zoom_lv))
  /\ UNCHANGED <<store, hist, last, nops, panicked, overflowChecks, other, inserted,
                 merged, mesh, input>>

NextLas == DoFromJprLas

SpecLas == InitLas /\ [][NextLas]_vars

\* C24: the LAS reader gives every point the colour floor(c / 256) of its
\* 16-bit channels c, a value of 0..255 that never decreases when c grows,
\* and (0, 0, 0) when the point has no colour.
C24_FlattenDiv256 ==
  IsSome(output) =>
    /\ \A k \in 1..Len(input.las) :
         LET rgb == output[1].points[k][2]
             color == input.las[k].color
         IN /\ \A i \in 1..3 : rgb[i] \in 0..255
            /\ color = None => rgb = <<0, 0, 0>>
            /\ color # None => \A i \in 1..3 : rgb[i] = color[1][i] \div 256
    /\ \A k, l \in 1..Len(input.las) :
         (input.las[k].color # None /\ input.las[l].color # None) =>
           \A i \in 1..3 :
             input.las[k].color[1][i] <= input.las[l].color[1][i]
               => output[1].points[k][2][i] <= output[1].points[l][2][i]

\* ------------------------------------------------------------------------
\* VoxelCollection::from_voxel_point_cloud (src/src/voxel.rs), SpecCloud.
\* ------------------------------------------------------------------------

\* Most points of a point cloud.
MaxCloudPoints == 3
\* Largest threshold handed to from_voxel_point_cloud.
MaxThreshold == 2

\* voxel_map.entry(pixel_coord).and_modify(..).or_insert((0, [0, 0, 0]))
VoxelMapEntry(voxel_map, pixel_coord, rgb) ==
  IF pixel_coord \in DOMAIN voxel_map
  THEN [voxel_map EXCEPT ![pixel_coord] =
          [count |-> @.count + 1, sum_rgb |-> [i \in 1..3 |-> @.sum_rgb[i] + rgb[i]]]]
  ELSE [c \in DOMAIN voxel_map \cup {pixel_coord} |->
          IF c = pixel_coord THEN [count |-> 0, sum_rgb |-> <<0, 0, 0>>]
          ELSE voxel_map[c]]

RECURSIVE VoxelMap(_, _)
VoxelMap(voxel_map, points) ==
  IF Len(points) = 0 THEN voxel_map
  ELSE VoxelMap(VoxelMapEntry(voxel_map, points[1][1], points[1][2]), Tail(points))

\* f: the voxel of an entry of the map, or None.
VoxelOf(pixel_coord, entry, threshold) ==
  IF entry.count = 0 THEN None
  ELSE IF entry.count < threshold THEN None
  ELSE Some(<<pixel_coord,
              [i \in 1..3 |-> (entry.sum_rgb[i] \div entry.count) % (U8Max + 1)]>>)

RECURSIVE FilterMap(_, _, _)
FilterMap(voxel_map, keys, threshold) ==
  IF Len(keys) = 0 THEN <<>>
  ELSE VoxelOf(keys[1], voxel_map[keys[1]], threshold)
       \o FilterMap(voxel_map, Tail(keys), threshold)

\* from_voxel_point_cloud; the map is drained in the order of the cells.
FromVoxelPointCloud(voxel_point_cloud, threshold) ==
  LET voxel_map == VoxelMap(<<>>, voxel_point_cloud.points)
  IN [voxels |-> FilterMap(voxel_map, KeySeq(DOMAIN voxel_map), threshold),
      zoom_lv |-> voxel_point_cloud.zoom_lv]

CloudCells == {<<0, 0, 0>>, <<1, 0, 0>>}

CloudColors == {<<10, 20, 30>>, <<30, 41, 255>>}

InitCloud ==
  /\ input \in [points : ListsUpTo(CloudCells \X CloudColors, MaxCloudPoints),
                zoom_lv : {18},
                threshold : 0..MaxThreshold]
  /\ overflowChecks = FALSE
  /\ output = None
  /\ store = None
  /\ panicked = FALSE
  /\ last = None
  /\ hist = None
  /\ nops = 0
  /\ other = None
  /\ inserted = None
  /\ merged = None
  /\ mesh = None

DoFromVoxelPointCloud ==
  /\ output = None
  /\ output' = Some(FromVoxelPointCloud([points |-> input.points, zoom_lv |-> input.zoom_lv],
                                        input.threshold))
  /\ UNCHANGED <<store, hist, last, nops, panicked, overflowChecks, other, inserted,
                 merged, mesh, input>>

NextCloud == DoFromVoxelPointCloud

SpecCloud == InitCloud /\ [][NextCloud]_vars

\* The input points that fall in a cell, in order.
PointsIn(cell) == SelectSeq(input.points, LAMBDA pt : pt[1] = cell)

\* C25: a voxel is generated for a cell exactly when the number of input
\* points in the cell exceeds the threshold, for every threshold, 0 included.
C25_ThresholdExceeded ==
  IsSome(output) =>
    \A cell \in CloudCells :
      (\E k \in 1..Len(output[1].voxels) : output[1].voxels[k][1] = cell)
        <=> Len(PointsIn(cell)) > input.threshold

\* C30: from_voxel_point_cloud outputs at most one voxel per cell, and the
\* colour of a voxel is the channel-wise integer mean of the colours of all
\* the input points of its cell, the first one included.
C30_MeanOfAllPoints ==
  IsSome(output) =>
    /\ \A k, l \in 1..Len(output[1].voxels) :
         output[1].voxels[k][1] = output[1].voxels[l][1] => k = l
    /\ \A k \in 1..Len(output[1].voxels) :
         LET pts == PointsIn(output[1].voxels[k][1])
         IN \A i \in 1..3 :
              output[1].voxels[k][2][i]
                = SumSeq([j \in 1..Len(pts) |-> pts[j][2][i]]) \div Len(pts)

\* ------------------------------------------------------------------------
\* round_up_to_mul_of_four and pad_to_mul_of_four (src/src/glb_gen.rs),
\* SpecPad: the two functions on their own.
\* ------------------------------------------------------------------------

\* Largest n below which, and largest distance from usize::MAX at which,
\* round_up_to_mul_of_four is applied.
MaxRound == 9
\* Longest list handed to pad_to_mul_of_four.
MaxVecLen == 5

UsizeMax == <<WideBase - 1, WideBase - 1, WideBase - 1, WideBase - 1>>

RoundInputs ==
  {ToWide(k) : k \in 0..MaxRound}
    \cup {<<WideBase - 1 - k, WideBase - 1, WideBase - 1, WideBase - 1>> : k \in 0..MaxRound}

InitPad ==
  /\ input \in [n : RoundInputs, vec : ListsUpTo({1, 2}, MaxVecLen)]
  /\ overflowChecks \in BOOLEAN
  /\ output = None
  /\ store = None
  /\ panicked = FALSE
  /\ last = None
  /\ hist = None
  /\ nops = 0
  /\ other = None
  /\ inserted = None
  /\ merged = None
  /\ mesh = None

\* round_up_to_mul_of_four(n); for an n within the model's integers, beside
\* it the result computed on the integers.
DoRoundUpToMulOfFour ==
  /\ output = None
  /\ LET r == RoundUpToMulOfFourWide(input.n, overflowChecks)
     IN /\ output' = Some([fn |-> "round_up_to_mul_of_four",
                           result |-> r,
                           small |-> IF IsSmall(input.n)
                                     THEN Some(RoundUpToMulOfFour(Small(input.n)))
                                     ELSE None])
        /\ panicked' = IsPanic(r)
  /\ UNCHANGED <<store, hist, last, nops, overflowChecks, other, inserted,
                 merged, mesh, input>>

\* pad_to_mul_of_four(vec) for a Vec of integers.
DoPadToMulOfFour ==
  /\ output = None
  /\ output' = Some([fn |-> "pad_to_mul_of_four",
                     result |-> PadToMulOfFour(input.vec, 0)])
  /\ UNCHANGED <<store, hist, last, nops, panicked, overflowChecks, other, inserted,
                 merged, mesh, input>>

NextPad == DoRoundUpToMulOfFour \/ DoPadToMulOfFour

SpecPad == InitPad /\ [][NextPad]_vars

Rounded == IsSome(output) /\ output[1].fn = "round_up_to_mul_of_four"

Padded == IsSome(output) /\ output[1].fn = "pad_to_mul_of_four"

\* r is the smallest multiple of 4 that is not below n.
SmallestMultiple(n, r) ==
  /\ r[1] % 4 = 0
  /\ \E d \in 0..3 : WideAdd(n, ToWide(d)) = [digits |-> r, overflow |-> FALSE]

\* C26 as stated: round_up_to_mul_of_four(n) returns the smallest multiple of
\* 4 that is not below n, for every n.
C26_SmallestMultiple ==
  Rounded =>
    /\ ~IsPanic(output[1].result)
    /\ SmallestMultiple(input.n, output[1].result.ok)

\* C26: round_up_to_mul_of_four(n) returns the smallest multiple of 4 that
\* is not below n for every n up to usize::MAX - 3 (0 -> 0, 1..4 -> 4,
\* 5..8 -> 8); for the three larger n, which have no such multiple in usize,
\* it panics under overflow checks and returns 0 without them.
C26_SmallestMultipleBelowMax ==
  Rounded =>
    IF \E d \in 0..3 : WideAdd(input.n, ToWide(d)).digits[1] % 4 = 0
                       /\ ~WideAdd(input.n, ToWide(d)).overflow
    THEN /\ ~IsPanic(output[1].result)
         /\ SmallestMultiple(input.n, output[1].result.ok)
         /\ output[1].small # None =>
              output[1].small = Some(Small(output[1].result.ok))
    ELSE IF overflowChecks THEN IsPanic(output[1].result)
         ELSE output[1].result = Ok(ToWide(0))

\* 5 has been rounded up to 8.
C26_Witness ==
  /\ Rounded
  /\ input.n = ToWide(5)
  /\ output[1].result = Ok(ToWide(8))
  /\ output[1].small = Some(8)

\* C27: pad_to_mul_of_four(v) is v followed by default elements only: v is
\* a prefix of the result, the length of the result is the smallest
\* multiple of 4 not below the length of v (a list of such a length comes
\* back unchanged), and every element after v is the default value.
C27_PadWithDefaults ==
  Padded =>
    LET v == input.vec
        r == output[1].result
    IN /\ Len(r) >= Len(v)
       /\ SubSeq(r, 1, Len(v)) = v
       /\ Len(r) % 4 = 0
       /\ Len(r) < Len(v) + 4
       /\ \A k \in (Len(v) + 1)..Len(r) : r[k] = 0
       /\ Len(v) % 4 = 0 => r = v

\* A list of 4 elements has come back unchanged.
C27_Witness ==
  /\ Padded
  /\ Len(input.vec) = 4
  /\ output[1].result = input.vec

\* ------------------------------------------------------------------------
\* SpecCombine: two hash stores whose voxels may stand for several points
\* already, combined by new, insert and merge in both orders.
\* ------------------------------------------------------------------------

\* Longest list of voxels handed to new() for a store to combine.
MaxCombine == 2

CombineKinds == {"HMap3D", "HMap2D"}

CombineCells == {PointDefault, <<1, 0, 0>>}

\* A single point, and a voxel that stands for two points of (10, 20, 30).
CombineVoxels == {VoxelNew(ColorA), [color |-> <<20, 40, 60>>, weight |-> 2]}

InitCombine ==
  /\ overflowChecks \in BOOLEAN
  /\ \E kind \in CombineKinds,
        voxels \in ListsUpTo(CombineCells \X CombineVoxels, MaxCombine) :
       store = New(kind, FALSE, voxels, None, PointDefault, 1, overflowChecks)
  /\ \E kind \in CombineKinds,
        voxels \in ListsUpTo(CombineCells \X CombineVoxels, MaxCombine) :
       other = New(kind, FALSE, voxels, None, PointDefault, 1, overflowChecks)
  /\ ~IsPanic(store)
  /\ ~IsPanic(other)
  /\ panicked = FALSE
  /\ last = None
  /\ nops = 0
  /\ hist = None
  /\ inserted = None
  /\ merged = None
  /\ mesh = None
  /\ input = None
  /\ output = None

\* other.clone().merge(store.clone())
DoMergeReversed ==
  /\ output = None
  /\ output' = Some(Merge(other, store, overflowChecks))
  /\ UNCHANGED <<store, hist, last, nops, panicked, overflowChecks, other, inserted,
                 merged, mesh, input>>

NextCombine == DoInsert \/ DoMerge \/ DoMergeReversed

SpecCombine == InitCombine /\ [][NextCombine]_vars

\* The voxels a store holds at a cell.
VoxelsAt(s, cell) == {ToVec(s)[k][2] : k \in {j \in 1..Len(ToVec(s)) : ToVec(s)[j][1] = cell}}

\* The sum of two voxels that hold accumulated sums.
SumOf(cur, new) ==
  [color |-> [i \in 1..3 |-> cur.color[i] + new.color[i]],
   weight |-> cur.weight + new.weight]

\* C28: combining hash stores is additive in the accumulated sums: a voxel
\* of weight above 1 combined into an occupied cell by insert or merge gives,
\* short of saturation, the cell the sum of the two weights and the sum of
\* the two colour sums, and A.merge(B) and B.merge(A) give every cell the
\* same averaged colour.
C28_AdditiveCombine ==
  /\ \A r \in {inserted, merged} :
       (IsSome(r) /\ ~IsPanic(r[1]) /\ ~IsErr(r[1])) =>
         \A cell \in CombineCells :
           \A cur \in VoxelsAt(store, cell), new \in VoxelsAt(other, cell) :
             (new.weight > 1 /\ cur.weight + new.weight <= WMax)
               => VoxelsAt(r[1], cell) = {SumOf(cur, new)}
  /\ (IsSome(merged) /\ IsSome(output)
        /\ ~IsPanic(merged[1]) /\ ~IsErr(merged[1])
        /\ ~IsPanic(output[1]) /\ ~IsErr(output[1]))
       => \A cell \in CombineCells :
            {AverageColor(v) : v \in VoxelsAt(merged[1], cell)}
              = {AverageColor(v) : v \in VoxelsAt(output[1], cell)}

\* C29: in the GLB of from_voxel_mesh the min and max of the POSITION
\* accessor bound every written vertex position (x, z, -y) on each of the
\* three axes.
C29_PositionBounds ==
  (IsSome(output) /\ output[1].fn = "from_voxel_mesh"
     /\ ~IsPanic(output[1].glb) /\ ~IsErr(output[1].glb)) =>
    LET positions == output[1].glb.accessors[1]
    IN \A k \in 1..Len(output[1].glb.vertices) :
         \A i \in 1..3 :
           /\ positions.min[i] <= output[1].glb.vertices[k][i]
           /\ output[1].glb.vertices[k][i] <= positions.max[i]

====
